---- MODULE Spec2Model ----
(***************************************************************************)
(* A model of the configuration-generation and service-registry core of    *)
(* the repository: the random path generator and ConfigGenerator           *)
(* (src/src/core/config_generator.py), the Nginx renderers and the         *)
(* NginxServiceManager registry (src/src/core/nginx_generator.py) and the  *)
(* tools of the MCP server that use them (src/src/api/mcp_server.py).      *)
(* It also covers the Caddy variant in src/xray-mcp-server: its            *)
(* ConfigGenerator and Caddyfile renderers (config_generator.py), the      *)
(* subscription generator (subscription.py), the MCP tools (server.py) and *)
(* the REST endpoints (main.py); and reload_nginx of                       *)
(* src/src/utils/nginx_installer.py with its two counterparts in the API.  *)
(*                                                                         *)
(* Text is a sequence of units.  A unit is one character of an             *)
(* interpolated value (a domain, a path, a port's digits) or one literal   *)
(* piece of a template.  File names are sequences of characters.           *)
(***************************************************************************)
EXTENDS Naturals, Sequences, FiniteSets, TLC

VARIABLES
    files,        \* the registry directory conf_dir: file name -> content
    lastCall,     \* the last registry call: operation, arguments, outcome
    addedTo,      \* entry name -> the services written to it since it was last removed
    procs,        \* concurrent registry calls: process -> its call and position
    lastGen,      \* the ConfigGenerator the last constructor call produced, or NoObject
    genCall,      \* the last call that builds an endpoint config, or generates a path
    currentConfigs,  \* _current_xray_configs of the MCP server: the dict's items
                  \* [domain, config], in insertion order
    subscription, \* what subscription_service was last updated with, or NoObject
    xrayFile,     \* the content of the Xray config.json, or NoObject
    caddyMain,    \* the content of the main Caddyfile, or NoFile
    caddyFragment,  \* the content of conf.d/xray-auto.caddy, or NoFile
    toolResult,   \* what the last tool or REST call returned, or NoResult
    commands,     \* the commands run through subprocess, in order: those of the last
                  \* call, or of every call so far where reload_nginx is specified
    host          \* the machine: the user of the process, the distribution, what is
                  \* installed, DEPLOYMENT_MODE and the files of the deployments

\* The state of config generation: the MCP server's globals and config.json.
genVars == <<lastGen, genCall, currentConfigs, subscription, xrayFile>>

\* The Caddy files, the result of the last tool call and the commands run.
toolVars == <<caddyMain, caddyFragment, toolResult, commands>>

\* The variables the sequential registry calls leave alone.
notRegVars == <<procs, lastGen, genCall, currentConfigs, subscription, xrayFile, toolVars,
                host>>

\* The variables the concurrent registry calls leave alone.
notConcVars == <<lastCall, addedTo, lastGen, genCall, currentConfigs, subscription, xrayFile,
                 toolVars, host>>

\* The variables config generation leaves alone.
notGenVars == <<files, lastCall, addedTo, procs, toolVars, host>>

vars == <<files, lastCall, addedTo, procs,
          lastGen, genCall, currentConfigs, subscription, xrayFile,
          caddyMain, caddyFragment, toolResult, commands, host>>

-----------------------------------------------------------------------------
(* Python values and string operations                                     *)

\* Python's None, kept apart from the empty string.
None == <<"<None>">>

\* None where the other values are objects (records).
NoObject == [none |-> TRUE]

\* A file that does not exist, where the other values are texts.
NoFile == <<"<no file>">>

\* Python truthiness of an Optional[str]: None and "" are falsy.
Truthy(v) == v # None /\ v # <<>>

ascii_lowercase ==
    <<"a","b","c","d","e","f","g","h","i","j","k","l","m",
      "n","o","p","q","r","s","t","u","v","w","x","y","z">>

ascii_uppercase ==
    <<"A","B","C","D","E","F","G","H","I","J","K","L","M",
      "N","O","P","Q","R","S","T","U","V","W","X","Y","Z">>

digits == <<"0","1","2","3","4","5","6","7","8","9">>

Range(s) == { s[i] : i \in 1..Len(s) }

\* str.lower() on one character.
LowerChar(c) ==
    IF \E i \in 1..Len(ascii_uppercase) : ascii_uppercase[i] = c
    THEN ascii_lowercase[CHOOSE i \in 1..Len(ascii_uppercase) : ascii_uppercase[i] = c]
    ELSE c

\* str.lower()
Lower(s) == [i \in 1..Len(s) |-> LowerChar(s[i])]

\* str.replace(old, new) for single characters.
Replace(s, old, new) == [i \in 1..Len(s) |-> IF s[i] = old THEN new ELSE s[i]]

\* str(n) for a non-negative integer: its decimal digits.
RECURSIVE IntToStr(_)
IntToStr(n) ==
    IF n < 10 THEN <<digits[n + 1]>>
    ELSE IntToStr(n \div 10) \o <<digits[(n % 10) + 1]>>

\* Characters of a literal, written out.
XrayPrefix == <<"x","r","a","y","-">>
ConfSuffix == <<".","c","o","n","f">>

-----------------------------------------------------------------------------
(* Bounded inputs                                                          *)

\* Domains: a plain one, one that differs from it only in '.' against '-',
\* one with an upper-case letter and one with a path separator.
DomainSamples ==
    { <<"a",".","b">>, <<"a","-","b">>, <<"A",".","b">>, <<"a","/","b">> }

PortSamples == {80, 10000}

PathSamples == { <<"/","p">> }

\* Service names of generic services ("A b" lowers to "a-b").
ServiceNameSamples == { <<"A"," ","b">> }

\* The domains generic services are added for.
GenericDomainSamples == { <<"a",".","b">> }

\* Certificate and key paths the registry is driven with (None: the
\* Let's Encrypt default).
CertSamples == { None }
KeySamples == { None }

-----------------------------------------------------------------------------
(* Renderers: nginx_generator.py                                           *)

\* The certificate and key paths both renderers use.
CertPath(domain, ssl_cert_path, ssl_key_path) ==
    IF Truthy(ssl_cert_path) /\ Truthy(ssl_key_path)
    THEN ssl_cert_path
    ELSE <<"/etc/letsencrypt/live/">> \o domain \o <<"/fullchain.pem">>

KeyPath(domain, ssl_cert_path, ssl_key_path) ==
    IF Truthy(ssl_cert_path) /\ Truthy(ssl_key_path)
    THEN ssl_key_path
    ELSE <<"/etc/letsencrypt/live/">> \o domain \o <<"/privkey.pem">>

\* The port-80 server block both renderers end with.
RedirectBlock(domain) ==
    <<"server {\n",
      "    listen 80;\n",
      "    listen [::]:80;\n",
      "    server_name ">> \o domain \o <<";\n",
      "    \n",
      "    location /.well-known/acme-challenge/ {\n",
      "        root /var/www/html;\n",
      "    }\n",
      "    \n",
      "    location / {\n",
      "        return 301 https://$host$request_uri;\n",
      "    }\n",
      "}\n">>

\* TlsLines that names the catch-all server instead of the domain.
TlsLines_CatchAll(domain, ssl_cert_path, ssl_key_path) ==
    <<"server {\n",
      "    listen 443 ssl http2;\n",
      "    listen [::]:443 ssl http2;\n",
      "    server_name _;\n",
      "    ssl_certificate ">> \o CertPath(domain, ssl_cert_path, ssl_key_path) \o <<";\n",
      "    ssl_certificate_key ">> \o KeyPath(domain, ssl_cert_path, ssl_key_path) \o <<";\n">>

\* The TLS lines both renderers share.
TlsLines(domain, ssl_cert_path, ssl_key_path) ==
    <<"server {\n",
      "    listen 443 ssl http2;\n",
      "    listen [::]:443 ssl http2;\n",
      "    server_name ">> \o domain \o <<";\n",
      "    \n",
      "    # SSL certificate\n",
      "    ssl_certificate ">> \o CertPath(domain, ssl_cert_path, ssl_key_path) \o <<";\n",
      "    ssl_certificate_key ">> \o KeyPath(domain, ssl_cert_path, ssl_key_path) \o <<";\n",
      "    \n",
      "    # SSL settings\n",
      "    ssl_protocols TLSv1.2 TLSv1.3;\n",
      "    ssl_ciphers ECDHE-RSA-AES128-GCM-SHA256:HIGH:!aNULL:!MD5;\n",
      "    ssl_prefer_server_ciphers on;\n",
      "    \n">>

generate_xray_config(domain, xray_port, xray_path, ssl_cert_path, ssl_key_path) ==
    <<"# Xray VLESS+XHTTP - ">> \o domain \o <<"\n",
      "# Backend: 127.0.0.1:">> \o IntToStr(xray_port) \o <<"\n",
      "\n">>
    \o TlsLines(domain, ssl_cert_path, ssl_key_path) \o
    <<"    # Xray XHTTP path\n",
      "    location ~ ^">> \o xray_path \o <<" {\n",
      "        proxy_pass http://127.0.0.1:">> \o IntToStr(xray_port) \o <<";\n",
      "        proxy_http_version 1.1;\n",
      "        proxy_set_header Upgrade $http_upgrade;\n",
      "        proxy_set_header Connection \"upgrade\";\n",
      "        proxy_set_header Host $host;\n",
      "        proxy_set_header X-Real-IP $remote_addr;\n",
      "        proxy_set_header X-Forwarded-For $proxy_add_x_forwarded_for;\n",
      "        \n",
      "        # no buffering\n",
      "        proxy_buffering off;\n",
      "        proxy_cache off;\n",
      "    }\n",
      "    \n",
      "    # camouflage page\n",
      "    location / {\n",
      "        return 200 \"Welcome\";\n",
      "        add_header Content-Type text/plain;\n",
      "    }\n",
      "}\n",
      "\n",
      "# HTTP redirect\n">>
    \o RedirectBlock(domain)

generate_service_config(domain, backend_port, service_name, location_path, ssl_cert_path, ssl_key_path, extra_config) ==
    <<"# ">> \o service_name \o <<" - ">> \o domain \o <<"\n",
      "# Backend: 127.0.0.1:">> \o IntToStr(backend_port) \o <<"\n",
      "\n">>
    \o TlsLines(domain, ssl_cert_path, ssl_key_path) \o
    <<"    # reverse proxy to the backend\n",
      "    location ">> \o location_path \o <<" {\n",
      "        proxy_pass http://127.0.0.1:">> \o IntToStr(backend_port) \o <<";\n",
      "        proxy_http_version 1.1;\n",
      "        proxy_set_header Upgrade $http_upgrade;\n",
      "        proxy_set_header Connection \"upgrade\";\n",
      "        proxy_set_header Host $host;\n",
      "        proxy_set_header X-Real-IP $remote_addr;\n",
      "        proxy_set_header X-Forwarded-For $proxy_add_x_forwarded_for;\n",
      "        proxy_set_header X-Forwarded-Proto $scheme;\n",
      "        ">> \o extra_config \o <<"\n",
      "    }\n",
      "}\n",
      "\n",
      "# HTTP redirect to HTTPS\n">>
    \o RedirectBlock(domain)

-----------------------------------------------------------------------------
(* The file system under conf_dir, as pathlib and the OS resolve a name    *)

\* The components of a name, split at '/'.
RECURSIVE SplitSlash(_)
SplitSlash(s) ==
    IF \A i \in 1..Len(s) : s[i] # "/" THEN <<s>>
    ELSE LET k == CHOOSE i \in 1..Len(s) :
                      s[i] = "/" /\ \A j \in 1..(i - 1) : s[j] # "/"
         IN <<SubSeq(s, 1, k - 1)>> \o SplitSlash(SubSeq(s, k + 1, Len(s)))

\* pathlib drops empty and '.' components when it joins conf_dir / name.
Components(name) ==
    SelectSeq(SplitSlash(name), LAMBDA c : c # <<>> /\ c # <<".">>)

\* What conf_dir / name is:
\*   "dir"      conf_dir itself or its parent ('', '.', '..'),
\*   "entry"    a file name directly inside conf_dir,
\*   "noparent" a path under a subdirectory; conf_dir holds no
\*              subdirectory, so the path's parent does not exist,
\*   "outside"  a path that leaves conf_dir (absolute, or through '..').
Resolve(name) ==
    LET comps == Components(name) IN
    IF name # <<>> /\ name[1] = "/" THEN [kind |-> "outside", entry |-> name]
    ELSE IF comps = <<>> THEN [kind |-> "dir", entry |-> <<>>]
    ELSE IF comps[1] = <<".",".">> THEN
        IF Len(comps) = 1 THEN [kind |-> "dir", entry |-> <<>>]
        ELSE [kind |-> "outside", entry |-> name]
    ELSE IF Len(comps) = 1 THEN [kind |-> "entry", entry |-> comps[1]]
    ELSE [kind |-> "noparent", entry |-> name]

\* Path.exists() of conf_dir / name in directory dir.
Exists(dir, name) ==
    LET r == Resolve(name) IN
    CASE r.kind = "entry" -> r.entry \in DOMAIN dir
      [] r.kind = "dir" -> TRUE
      [] OTHER -> FALSE

\* The error Path.write_text raises for conf_dir / name, or None.
WriteError(name) ==
    LET r == Resolve(name) IN
    CASE r.kind = "entry" -> None
      [] r.kind = "dir" -> <<"IsADirectoryError">>
      [] r.kind = "noparent" -> <<"FileNotFoundError">>

\* WriteText that opens the file for appending.
WriteText_Append(dir, e, text) ==
    [m \in (DOMAIN dir) \cup {e} |->
        IF m = e THEN (IF e \in DOMAIN dir THEN dir[e] \o text ELSE text) ELSE dir[m]]

\* The directory after Path.write_text(text) on entry e: the file is
\* created or truncated and then holds exactly text.
WriteText(dir, e, text) ==
    [m \in (DOMAIN dir) \cup {e} |-> IF m = e THEN text ELSE dir[m]]

\* Unlink that takes every file of the directory with it.
Unlink_All(dir, e) == [m \in {} |-> <<>>]

\* The directory after Path.unlink() on entry e.
Unlink(dir, e) == [m \in (DOMAIN dir) \ {e} |-> dir[m]]

\* fnmatch of a name against a pattern whose only wildcard is '*'.
RECURSIVE FnMatch(_, _)
FnMatch(pat, name) ==
    IF pat = <<>> THEN name = <<>>
    ELSE IF pat[1] = "*" THEN
        \E k \in 0..Len(name) : FnMatch(Tail(pat), SubSeq(name, k + 1, Len(name)))
    ELSE name # <<>> /\ name[1] = pat[1] /\ FnMatch(Tail(pat), Tail(name))

\* Path.glob(pattern) on the directory: the matching names.
Glob(dir, pat) == { n \in DOMAIN dir : FnMatch(pat, n) }

-----------------------------------------------------------------------------
(* NginxServiceManager: the registry over conf_dir                         *)

\* Files that were in conf_dir before the manager was constructed.
ForeignFiles ==
    ( <<"d",".","c","o","n","f">> :> <<"# default site\n">> ) @@
    ( <<"n",".","t","x","t">> :> <<"notes\n">> )

\* The result of a tool call before any was made.
NoResult == [op |-> "none"]

\* No Caddy file written, no tool called and no command run yet.
\* The machine the generators are specified on: a Debian host, the process
\* run by root, nothing installed, DEPLOYMENT_MODE unset, nothing deployed.
DefaultHost ==
    [root |-> TRUE, distro |-> "debian", installed |-> {}, mode |-> "full", written |-> {}]

ToolsIdle ==
    /\ caddyMain = NoFile /\ caddyFragment = NoFile
    /\ toolResult = NoResult /\ commands = <<>>
    /\ host = DefaultHost

\* The record of a call.  repeats tells whether the call before it was the
\* same call (same operation and arguments), and how that one ended.
NoCall ==
    [op |-> "none", args |-> <<>>, raised |-> None,
     file |-> <<>>, ok |-> FALSE, listed |-> {}, repeats |-> "no"]

\* The record of a call that builds an endpoint config or generates a path.
NoGenCall ==
    [op |-> "none", domains |-> <<>>, xray_path |-> None, length |-> 0,
     error |-> None, path |-> None, built |-> FALSE]

Repeats(op, args) ==
    IF lastCall.op = op /\ lastCall.args = args
    THEN (IF lastCall.raised # None THEN "raised"
          ELSE IF lastCall.ok THEN "returned_true" ELSE "returned")
    ELSE "no"

\* XrayFileName with another extension than the one list_services globs for.
XrayFileName_OtherSuffix(domain) ==
    XrayPrefix \o Replace(domain, ".", "-") \o <<".","c","f","g">>

\* The file name add_xray_service computes.
XrayFileName(domain) == XrayPrefix \o Replace(domain, ".", "-") \o ConfSuffix

\* The file name add_generic_service computes.
GenericFileName(service_name, domain) ==
    Replace(Lower(service_name), " ", "-") \o <<"-">> \o Replace(domain, ".", "-") \o ConfSuffix

\* addedTo after service svc was written to entry e.
NoteAdd(e, svc) ==
    [m \in (DOMAIN addedTo) \cup {e} |->
        IF m = e
        THEN (IF e \in DOMAIN addedTo THEN addedTo[e] ELSE {}) \cup {svc}
        ELSE addedTo[m]]

\* addedTo after a remove of entry e returned.
NoteRemove(e) ==
    [m \in (DOMAIN addedTo) \cup {e} |-> IF m = e THEN {} ELSE addedTo[m]]

\* The directory after config_file.write_text(config): unchanged when the
\* write raises.
FilesAfterWrite(dir, config_file, config) ==
    IF WriteError(config_file) = None
    THEN WriteText(dir, Resolve(config_file).entry, config)
    ELSE dir

AddedAfterWrite(config_file, svc) ==
    IF WriteError(config_file) = None
    THEN NoteAdd(Resolve(config_file).entry, svc)
    ELSE addedTo

AddXrayService(domain, xray_port, xray_path, ssl_cert_path, ssl_key_path) ==
    LET config == generate_xray_config(domain, xray_port, xray_path, ssl_cert_path, ssl_key_path)
        config_file == XrayFileName(domain)
    IN /\ files' = FilesAfterWrite(files, config_file, config)
       /\ addedTo' = AddedAfterWrite(config_file, <<"xray", domain>>)
       /\ lastCall' = [NoCall EXCEPT
               !.op = "add_xray_service",
               !.args = <<domain, xray_port, xray_path, ssl_cert_path, ssl_key_path>>,
               !.file = config_file,
               !.raised = WriteError(config_file),
               !.repeats = Repeats("add_xray_service",
                    <<domain, xray_port, xray_path, ssl_cert_path, ssl_key_path>>)]
       /\ UNCHANGED notRegVars

AddGenericService(domain, backend_port, service_name, location_path, ssl_cert_path, ssl_key_path, extra_config) ==
    LET config == generate_service_config(domain, backend_port, service_name, location_path,
                                          ssl_cert_path, ssl_key_path, extra_config)
        config_file == GenericFileName(service_name, domain)
    IN /\ files' = FilesAfterWrite(files, config_file, config)
       /\ addedTo' = AddedAfterWrite(config_file, <<service_name, domain>>)
       /\ lastCall' = [NoCall EXCEPT
               !.op = "add_generic_service",
               !.args = <<domain, backend_port, service_name, location_path,
                          ssl_cert_path, ssl_key_path, extra_config>>,
               !.file = config_file,
               !.raised = WriteError(config_file),
               !.repeats = Repeats("add_generic_service",
                    <<domain, backend_port, service_name, location_path,
                      ssl_cert_path, ssl_key_path, extra_config>>)]
       /\ UNCHANGED notRegVars

\* remove_service without the exists() test: unlink() raises for a missing file.
RemoveService_NoCheck(config_filename) ==
    LET r == Resolve(config_filename)
        call == [NoCall EXCEPT !.op = "remove_service",
                               !.args = <<config_filename>>,
                               !.repeats = Repeats("remove_service", <<config_filename>>)]
    IN
    /\ UNCHANGED notRegVars
    /\ IF r.kind = "entry" /\ r.entry \in DOMAIN files
       THEN /\ files' = Unlink(files, r.entry)
            /\ addedTo' = NoteRemove(r.entry)
            /\ lastCall' = [call EXCEPT !.ok = TRUE]
       ELSE /\ lastCall' = [call EXCEPT !.raised = <<"FileNotFoundError">>]
            /\ UNCHANGED <<files, addedTo>>

RemoveService(config_filename) ==
    LET r == Resolve(config_filename)
        call == [NoCall EXCEPT !.op = "remove_service",
                               !.args = <<config_filename>>,
                               !.repeats = Repeats("remove_service", <<config_filename>>)]
    IN
    /\ UNCHANGED notRegVars
    /\ IF Exists(files, config_filename)
       THEN IF r.kind = "entry"
            THEN /\ files' = Unlink(files, r.entry)
                 /\ addedTo' = NoteRemove(r.entry)
                 /\ lastCall' = [call EXCEPT !.ok = TRUE]
            ELSE \* unlink() of a directory
                 /\ lastCall' = [call EXCEPT !.raised = <<"IsADirectoryError">>]
                 /\ UNCHANGED <<files, addedTo>>
       ELSE /\ lastCall' = [call EXCEPT !.ok = FALSE]
            /\ addedTo' = NoteRemove(r.entry)
            /\ UNCHANGED files

\* A pattern that matches the Xray files only.
ConfPattern_XrayOnly == XrayPrefix \o <<"*">> \o ConfSuffix

\* The pattern list_services globs with.
ConfPattern == <<"*">> \o ConfSuffix

\* What list_services() returns for a directory: the names
\* conf_dir.glob("*.conf") yields, in no order.
Listed(dir) == Glob(dir, ConfPattern)

ListServices ==
    /\ lastCall' = [NoCall EXCEPT !.op = "list_services", !.listed = Listed(files)]
    /\ UNCHANGED <<files, addedTo>>
    /\ UNCHANGED notRegVars

\* The names remove_service is called with: every name an add computes
\* (present or not), the foreign files, and the empty name.
RemoveNameSamples ==
    { XrayFileName(d) : d \in DomainSamples }
    \cup { GenericFileName(n, d) : n \in ServiceNameSamples, d \in GenericDomainSamples }
    \cup DOMAIN ForeignFiles
    \cup { <<>> }

Init ==
    /\ \E S \in SUBSET (DOMAIN ForeignFiles) : files = [n \in S |-> ForeignFiles[n]]
    /\ lastCall = NoCall
    /\ addedTo = <<>>
    /\ procs = <<>>
    /\ lastGen = NoObject /\ genCall = NoGenCall /\ currentConfigs = <<>>
    /\ subscription = NoObject /\ xrayFile = NoObject
    /\ ToolsIdle

Next ==
    \/ \E d \in DomainSamples, port \in PortSamples, path \in PathSamples,
          cert \in CertSamples, key \in KeySamples :
            AddXrayService(d, port, path, cert, key)
    \/ \E d \in GenericDomainSamples, port \in PortSamples, n \in ServiceNameSamples,
          cert \in CertSamples, key \in KeySamples :
            AddGenericService(d, port, n, <<"/">>, cert, key, <<>>)
    \/ \E n \in RemoveNameSamples : RemoveService(n)
    \/ ListServices

Spec == Init /\ [][Next]_vars

-----------------------------------------------------------------------------
(* Two registry calls running at once on one conf_dir.  write_text is      *)
(* open(mode='w'), which creates or truncates the file, then one write at  *)
(* the descriptor's own offset 0 when the file is closed; remove_service   *)
(* is exists() and then unlink().  Each of these is one step.              *)

Procs == {1, 2}

ConcDomainSamples == { <<"a",".","b">>, <<"a","-","b">> }

\* Bytes written at offset 0 over what the file holds: what lies beyond
\* the written text stays.
Overlay(old, text) == text \o SubSeq(old, Len(text) + 1, Len(old))

\* A call that has not begun.
AddCall(domain, xray_port, xray_path) ==
    [op |-> "add_xray_service", pc |-> "open",
     file |-> XrayFileName(domain),
     text |-> generate_xray_config(domain, xray_port, xray_path, None, None),
     linked |-> FALSE, ok |-> FALSE, raised |-> None]

RemoveCall(config_filename) ==
    [op |-> "remove_service", pc |-> "exists",
     file |-> config_filename, text |-> <<>>,
     linked |-> FALSE, ok |-> FALSE, raised |-> None]

ConcCalls ==
    { AddCall(d, port, path) : d \in ConcDomainSamples, port \in PortSamples, path \in PathSamples }
    \cup { RemoveCall(XrayFileName(d)) : d \in ConcDomainSamples }

\* open(config_file, 'w') of write_text: the entry exists and is empty
\* afterwards, and the process holds a descriptor on it.
AddOpen(p) ==
    /\ procs[p].op = "add_xray_service" /\ procs[p].pc = "open"
    /\ IF WriteError(procs[p].file) = None
       THEN /\ files' = WriteText(files, Resolve(procs[p].file).entry, <<>>)
            /\ procs' = [procs EXCEPT ![p].pc = "write", ![p].linked = TRUE]
       ELSE /\ procs' = [procs EXCEPT ![p].pc = "done", ![p].raised = WriteError(procs[p].file)]
            /\ UNCHANGED files
    /\ UNCHANGED notConcVars

\* The write and close of write_text: the text goes to the file the
\* descriptor is on, from offset 0; a file unlinked since the open is no
\* longer in the directory.
AddWrite(p) ==
    /\ procs[p].op = "add_xray_service" /\ procs[p].pc = "write"
    /\ LET e == Resolve(procs[p].file).entry IN
       IF procs[p].linked
       THEN files' = [files EXCEPT ![e] = Overlay(files[e], procs[p].text)]
       ELSE UNCHANGED files
    /\ procs' = [procs EXCEPT ![p].pc = "done"]
    /\ UNCHANGED notConcVars

\* config_file.exists()
RemoveExists(p) ==
    /\ procs[p].op = "remove_service" /\ procs[p].pc = "exists"
    /\ IF Exists(files, procs[p].file)
       THEN procs' = [procs EXCEPT ![p].pc = "unlink"]
       ELSE procs' = [procs EXCEPT ![p].pc = "done", ![p].ok = FALSE]
    /\ UNCHANGED files
    /\ UNCHANGED notConcVars

\* config_file.unlink(): raises when the file is gone by now.  A
\* descriptor another process holds on the file stays on the unlinked file.
RemoveUnlink(p) ==
    /\ procs[p].op = "remove_service" /\ procs[p].pc = "unlink"
    /\ LET e == Resolve(procs[p].file).entry IN
       IF Resolve(procs[p].file).kind = "entry" /\ e \in DOMAIN files
       THEN /\ files' = Unlink(files, e)
            /\ procs' = [q \in Procs |->
                  IF q = p THEN [procs[p] EXCEPT !.pc = "done", !.ok = TRUE]
                  ELSE IF procs[q].pc = "write" /\ Resolve(procs[q].file).entry = e
                       THEN [procs[q] EXCEPT !.linked = FALSE]
                       ELSE procs[q]]
       ELSE /\ procs' = [procs EXCEPT ![p].pc = "done",
                           ![p].raised = IF Resolve(procs[p].file).kind = "dir"
                                         THEN <<"IsADirectoryError">>
                                         ELSE <<"FileNotFoundError">>]
            /\ UNCHANGED files
    /\ UNCHANGED notConcVars

\* conf_dir before the two calls: empty, or holding a file an earlier add
\* wrote.
ConcInitialDirs ==
    { <<>>,
      XrayFileName(<<"a",".","b">>) :>
          generate_xray_config(<<"a",".","b">>, 10000, <<"/","p">>, None, None) }

InitConc ==
    /\ files \in ConcInitialDirs
    /\ procs \in [Procs -> ConcCalls]
    /\ lastCall = NoCall
    /\ addedTo = <<>>
    /\ lastGen = NoObject /\ genCall = NoGenCall /\ currentConfigs = <<>>
    /\ subscription = NoObject /\ xrayFile = NoObject
    /\ ToolsIdle

NextConc ==
    \E p \in Procs :
        \/ AddOpen(p)
        \/ AddWrite(p)
        \/ RemoveExists(p)
        \/ RemoveUnlink(p)

SpecConc == InitConc /\ [][NextConc]_vars

-----------------------------------------------------------------------------
(* config_generator.py: the random path, XrayConfig and ConfigGenerator    *)

\* chars = string.ascii_letters + string.digits
chars == ascii_lowercase \o ascii_uppercase \o digits

\* The length generate_random_path() uses when none is given.
DefaultLength == 16

\* The lengths generate_random_path is called with explicitly: 0..MaxLength.
MaxLength == 3

\* The indices secrets.choice(chars) is taken to draw: the first and the
\* last character of chars.
ChoiceIdx == {1, Len(chars)}

\* generate_random_path that returns the random string without the '/'.
generate_random_path_NoSlash(length) ==
    { [i \in 1..length |-> chars[f[i]]] : f \in [1..length -> ChoiceIdx] }

\* The values generate_random_path(length) can return: '/' and then length
\* characters, each one a secrets.choice(chars).
generate_random_path(length) ==
    { <<"/">> \o [i \in 1..length |-> chars[f[i]]] : f \in [1..length -> ChoiceIdx] }

\* Two of the values generate_random_path() can return, for the calls
\* whose path is only carried along.
RandomPathSamples ==
    { <<"/">> \o [i \in 1..DefaultLength |-> chars[k]] : k \in ChoiceIdx }

\* Values of str(uuid.uuid4()).
UuidSamples == { <<"u","1">>, <<"u","2">> }

\* to_dict that takes the dataclass defaults instead of the fields.
to_dict_Defaults(cfg) ==
    [log |-> [loglevel |-> "warning"],
     inbounds |-> <<
        [listen |-> "127.0.0.1",
         port |-> 10000,
         protocol |-> "vless",
         settings |-> [clients |-> << [id |-> cfg.uuid, flow |-> ""] >>,
                       decryption |-> "none"],
         streamSettings |-> [network |-> "xhttp",
                             xhttpSettings |-> [path |-> <<"/","x","r","a","y">>, mode |-> "auto"]]] >>,
     outbounds |-> << [protocol |-> "freedom", tag |-> "direct"] >>]

\* XrayConfig.to_dict()
to_dict(cfg) ==
    [log |-> [loglevel |-> "warning"],
     inbounds |-> <<
        [listen |-> "127.0.0.1",
         port |-> cfg.listen_port,
         protocol |-> "vless",
         settings |-> [clients |-> << [id |-> cfg.uuid, flow |-> ""] >>,
                       decryption |-> "none"],
         streamSettings |-> [network |-> "xhttp",
                             xhttpSettings |-> [path |-> cfg.path, mode |-> "auto"]]] >>,
     outbounds |-> << [protocol |-> "freedom", tag |-> "direct"] >>]

\* ConfigGenerator.__init__: the object it builds.  random_path and
\* random_uuid are what generate_random_path() and uuid4() return if called.
ConfigGenerator(domains, xray_port, xray_path, client_uuid, cdn_host, random_path, random_uuid) ==
    LET path == IF Truthy(xray_path) THEN xray_path ELSE random_path
        uuid == IF Truthy(client_uuid) THEN client_uuid ELSE random_uuid
    IN [domains |-> domains,
        xray_port |-> xray_port,
        xray_path |-> path,
        cdn_host |-> cdn_host,
        client_uuid |-> uuid,
        xray_config |-> [domains |-> domains, uuid |-> uuid,
                         listen_port |-> xray_port, path |-> path]]

\* ConfigGenerator.generate_xray_json(): the JSON document of to_dict().
generate_xray_json(gen) == to_dict(gen.xray_config)

\* A call of generate_random_path(length).
GenerateRandomPath(length) ==
    /\ \E path \in generate_random_path(length) :
          genCall' = [NoGenCall EXCEPT !.op = "generate_random_path",
                                       !.length = length, !.path = path]
    /\ UNCHANGED <<lastGen, currentConfigs, subscription, xrayFile>>
    /\ UNCHANGED notGenVars

\* A call of the constructor, as the tests and the deployment scripts make.
NewConfigGenerator(domains, xray_port, xray_path, client_uuid, cdn_host, random_path, random_uuid) ==
    /\ lastGen' = ConfigGenerator(domains, xray_port, xray_path, client_uuid, cdn_host,
                                  random_path, random_uuid)
    /\ genCall' = [NoGenCall EXCEPT !.op = "ConfigGenerator", !.domains = domains,
                                    !.xray_path = xray_path, !.built = TRUE]
    /\ UNCHANGED <<currentConfigs, subscription, xrayFile>>
    /\ UNCHANGED notGenVars

\* save_xray_config() on the generator last built.
SaveXrayConfig ==
    /\ lastGen # NoObject
    /\ xrayFile' = generate_xray_json(lastGen)
    /\ genCall' = [NoGenCall EXCEPT !.op = "save_xray_config"]
    /\ UNCHANGED <<lastGen, currentConfigs, subscription>>
    /\ UNCHANGED notGenVars

\* subscription_service.update_config(uuid=, domains=, path=, cdn_host=) of
\* src.core.subscription, as the tools of api/mcp_server.py call it: the
\* service is configured anew from one endpoint, whose domain list gives its
\* nodes; what it held before is replaced.
update_config(uuid, domains, path, cdn_host) ==
    [uuid |-> uuid, domains |-> domains, path |-> path, cdn_host |-> cdn_host]

\* dict[key] = value on a dict kept as its items in insertion order: a key
\* that is there keeps its place, a new key goes to the end.
DictSet(dict, key, value) ==
    IF \E i \in 1..Len(dict) : dict[i].domain = key
    THEN [i \in 1..Len(dict) |->
             IF dict[i].domain = key THEN [domain |-> key, config |-> value] ELSE dict[i]]
    ELSE Append(dict, [domain |-> key, config |-> value])

\* for key in keys: dict[key] = value
RECURSIVE DictSetAll(_, _, _)
DictSetAll(dict, keys, value) ==
    IF keys = <<>> THEN dict
    ELSE DictSetAll(DictSet(dict, Head(keys), value), Tail(keys), value)

\* The generate_configs tool of the MCP server.
GenerateConfigs(domains, xray_port, xray_path, cdn_host, random_path, random_uuid) ==
    LET config_gen == ConfigGenerator(domains, xray_port, xray_path, None, cdn_host,
                                      random_path, random_uuid)
    IN
    /\ UNCHANGED notGenVars
    /\ IF domains = <<>>
       THEN /\ genCall' = [NoGenCall EXCEPT !.op = "generate_configs", !.domains = domains,
                                            !.xray_path = xray_path,
                                            !.error = <<"at least one domain is required">>]
            /\ UNCHANGED <<lastGen, currentConfigs, subscription, xrayFile>>
       ELSE /\ lastGen' = config_gen
            /\ currentConfigs' = DictSetAll(currentConfigs, domains, config_gen)
            /\ subscription' = update_config(config_gen.client_uuid, domains,
                                              config_gen.xray_path, cdn_host)
            /\ genCall' = [NoGenCall EXCEPT !.op = "generate_configs", !.domains = domains,
                                            !.xray_path = xray_path, !.built = TRUE]
            /\ UNCHANGED xrayFile

\* The domain lists, ports and paths config generation is driven with.
DomainListSamples ==
    { <<>>, << <<"a",".","b">> >>, << <<"a",".","b">>, <<"c",".","d">> >> }

GenPortSamples == {10000}

GenPathSamples == { None, <<>>, <<"/","p">> }

CdnSamples == { None }

InitGen ==
    /\ lastGen = NoObject
    /\ genCall = NoGenCall
    /\ currentConfigs = <<>>
    /\ subscription = NoObject
    /\ xrayFile = NoObject
    /\ ToolsIdle
    /\ files = <<>>
    /\ lastCall = NoCall
    /\ addedTo = <<>>
    /\ procs = <<>>

NextGen ==
    \/ \E domains \in DomainListSamples, port \in GenPortSamples, path \in GenPathSamples,
          cdn \in CdnSamples, rp \in RandomPathSamples, ru \in UuidSamples :
            NewConfigGenerator(domains, port, path, None, cdn, rp, ru)
    \/ SaveXrayConfig
    \/ \E domains \in DomainListSamples, port \in GenPortSamples, path \in GenPathSamples,
          cdn \in CdnSamples, rp \in RandomPathSamples, ru \in UuidSamples :
            GenerateConfigs(domains, port, path, cdn, rp, ru)

SpecGen == InitGen /\ [][NextGen]_vars

\* The path generator on its own.  A run makes one call: Init draws the
\* call, with every explicit length up to MaxLength, and the step makes it,
\* with every value the generator can return.
PendingPathCalls ==
    { [NoGenCall EXCEPT !.op = "call generate_random_path", !.length = n] : n \in 0..MaxLength }
    \cup { [NoGenCall EXCEPT !.op = "call ConfigGenerator", !.xray_path = path] :
              path \in GenPathSamples }

InitPath ==
    /\ genCall \in PendingPathCalls
    /\ lastGen = NoObject /\ currentConfigs = <<>>
    /\ subscription = NoObject /\ xrayFile = NoObject
    /\ ToolsIdle
    /\ files = <<>> /\ lastCall = NoCall /\ addedTo = <<>> /\ procs = <<>>

CallGenerateRandomPath ==
    /\ genCall.op = "call generate_random_path"
    /\ GenerateRandomPath(genCall.length)

CallConfigGenerator ==
    /\ genCall.op = "call ConfigGenerator"
    /\ \E rp \in generate_random_path(DefaultLength) :
          NewConfigGenerator(<< <<"a",".","b">> >>, 10000, genCall.xray_path, None, None,
                             rp, <<"u","1">>)

NextPath == CallGenerateRandomPath \/ CallConfigGenerator

SpecPath == InitPath /\ [][NextPath]_vars


\* The constructor and what is made of its object.  A run builds one
\* ConfigGenerator: Init draws the domains and the path it is called with,
\* the step builds it, and save_xray_config() writes its JSON.
BuildPathSamples == GenPathSamples \cup { <<"p">> }

BuildPortSamples == {443, 10000}

BuildUuidSamples == { None, <<"u","0">> }

BuildCdnSamples == { None, <<"c",".","d">> }

PendingBuilds ==
    { [NoGenCall EXCEPT !.op = "call ConfigGenerator", !.domains = domains, !.xray_path = path] :
          domains \in DomainListSamples, path \in BuildPathSamples }

InitBuild ==
    /\ genCall \in PendingBuilds
    /\ lastGen = NoObject /\ currentConfigs = <<>>
    /\ subscription = NoObject /\ xrayFile = NoObject
    /\ ToolsIdle
    /\ files = <<>> /\ lastCall = NoCall /\ addedTo = <<>> /\ procs = <<>>

BuildConfigGenerator ==
    /\ genCall.op = "call ConfigGenerator"
    /\ \E port \in BuildPortSamples, client_uuid \in BuildUuidSamples, cdn \in BuildCdnSamples,
          rp \in RandomPathSamples, ru \in UuidSamples :
            NewConfigGenerator(genCall.domains, port, genCall.xray_path, client_uuid, cdn, rp, ru)

NextBuild == BuildConfigGenerator \/ SaveXrayConfig

SpecBuild == InitBuild /\ [][NextBuild]_vars

-----------------------------------------------------------------------------
(* xray-mcp-server: CaddyConfig, its ConfigGenerator and the MCP tools     *)

\* "\n".join(blocks)
RECURSIVE Join(_)
Join(blocks) ==
    IF blocks = <<>> THEN <<>>
    ELSE IF Len(blocks) = 1 THEN blocks[1]
    ELSE blocks[1] \o <<"\n">> \o Join(Tail(blocks))

\* SiteBlock that renders every block for the first domain of the list.
SiteBlock_FirstDomain(cfg, domain) ==
    cfg.domains[1] \o <<" {\n",
      "    @xhttp path ">> \o cfg.xray_path \o <<"*\n",
      "    reverse_proxy @xhttp 127.0.0.1:">> \o IntToStr(cfg.xray_port) \o <<" {\n",
      "        flush_interval -1\n",
      "        header_up X-Forwarded-For {remote_host}\n",
      "    }\n",
      "    respond \"Welcome to ">> \o cfg.domains[1] \o <<"\" 200\n",
      "}\n">>

\* The site block to_caddyfile renders for one domain.
SiteBlock(cfg, domain) ==
    domain \o <<" {\n",
      "    # XHTTP reverse proxy to Xray\n",
      "    @xhttp path ">> \o cfg.xray_path \o <<"*\n",
      "    reverse_proxy @xhttp 127.0.0.1:">> \o IntToStr(cfg.xray_port) \o <<" {\n",
      "        flush_interval -1\n",
      "        header_up X-Forwarded-For {remote_host}\n",
      "    }\n",
      "    \n",
      "    # Default response for camouflage\n",
      "    respond \"Welcome to ">> \o domain \o <<"\" 200\n",
      "}\n">>

\* The blocks to_caddyfile joins: one per domain, and the CDN comment in
\* front when there is a cdn_host.
CaddyBlocks(cfg) ==
    LET blocks == [i \in 1..Len(cfg.domains) |-> SiteBlock(cfg, cfg.domains[i])]
    IN IF Truthy(cfg.cdn_host)
       THEN << <<"# CDN Host: ">> \o cfg.cdn_host \o <<"\n">> >> \o blocks
       ELSE blocks

\* CaddyConfig.to_caddyfile()
to_caddyfile(cfg) == Join(CaddyBlocks(cfg))

\* CaddyConfig.to_main_caddyfile()
to_main_caddyfile ==
    <<"{\n",
      "    # Global config\n",
      "    admin off\n",
      "}\n",
      "\n",
      "# Include all auto-generated configurations\n",
      "import /etc/caddy/conf.d/*.caddy\n">>

\* ConfigGenerator.__init__ of xray-mcp-server: the generator of the core
\* with a CaddyConfig beside its XrayConfig.
CaddyConfigGenerator(domains, xray_port, xray_path, client_uuid, cdn_host, random_path, random_uuid) ==
    LET gen == ConfigGenerator(domains, xray_port, xray_path, client_uuid, cdn_host,
                               random_path, random_uuid)
    IN [domains |-> gen.domains,
        xray_port |-> gen.xray_port,
        xray_path |-> gen.xray_path,
        cdn_host |-> gen.cdn_host,
        client_uuid |-> gen.client_uuid,
        xray_config |-> gen.xray_config,
        caddy_config |-> [domains |-> domains, xray_port |-> xray_port,
                          xray_path |-> gen.xray_path, cdn_host |-> cdn_host]]

generate_caddyfile(gen) == to_caddyfile(gen.caddy_config)

generate_main_caddyfile(gen) == to_main_caddyfile

\* The default paths of the deployment.
XrayConfigPath == <<"/usr/local/etc/xray/config.json">>

CaddyMainPath == <<"/etc/caddy/Caddyfile">>

CaddyConfDPath == <<"/etc/caddy/conf.d/xray-auto.caddy">>

\* The main Caddyfile and the fragment after write_text(text) on path.
CaddyMainAfter(path, text) == IF path = CaddyMainPath THEN text ELSE caddyMain

CaddyFragmentAfter(path, text) == IF path = CaddyConfDPath THEN text ELSE caddyFragment

\* What a write or a subprocess call of a deployment can end in.
WriteOutcomes == {"ok", "raised"}

RunOutcomes == {"ok", "failed"}

\* The outcomes of one part of a deployment: the write and, when it is done,
\* the restart or reload.
PartOutcomes ==
    { <<w, r>> : w \in WriteOutcomes, r \in RunOutcomes } \ { <<"raised", "failed">> }

\* One artifact's part of the result of deploy_configs: results["xray"] or
\* results["caddy"].  The restart or reload is only run once the write is
\* done, and an exception of the write ends the part with "error".
ArtifactResult(path, write, run, key) ==
    [config_saved |-> IF write = "ok" THEN path ELSE None,
     run |-> IF write = "ok" THEN key ELSE "none",
     success |-> write = "ok" /\ run = "ok",
     error |-> IF write = "raised" THEN <<"PermissionError">> ELSE None]

\* A call of the constructor of xray-mcp-server, as main.py and the module's
\* own example make.
NewCaddyConfigGenerator(domains, xray_port, xray_path, cdn_host, random_path, random_uuid) ==
    /\ lastGen' = CaddyConfigGenerator(domains, xray_port, xray_path, None, cdn_host,
                                       random_path, random_uuid)
    /\ toolResult' = [op |-> "ConfigGenerator"]
    /\ commands' = <<>>
    /\ UNCHANGED <<genCall, currentConfigs, subscription, xrayFile, caddyMain, caddyFragment>>
    /\ UNCHANGED <<files, lastCall, addedTo, procs, host>>

\* The generate_configs tool of xray-mcp-server.
CaddyGenerateConfigs(domains, xray_path, xray_port, random_path, random_uuid) ==
    LET gen == CaddyConfigGenerator(domains, xray_port, xray_path, None, None,
                                    random_path, random_uuid)
    IN
    /\ commands' = <<>>
    /\ UNCHANGED <<genCall, currentConfigs, xrayFile, caddyMain, caddyFragment>>
    /\ UNCHANGED <<files, lastCall, addedTo, procs, host>>
    /\ IF domains = <<>>
       THEN /\ toolResult' = [op |-> "generate_configs",
                              error |-> <<"At least one domain is required">>]
            /\ UNCHANGED <<lastGen, subscription>>
       ELSE /\ lastGen' = gen
            /\ subscription' = [uuid |-> gen.client_uuid, domains |-> domains,
                                port |-> 443, path |-> xray_path]
            /\ toolResult' = [op |-> "generate_configs", success |-> TRUE,
                              uuid |-> gen.client_uuid, domains |-> domains,
                              xray_config |-> to_dict(gen.xray_config),
                              caddyfile |-> generate_caddyfile(gen)]

\* The deploy_configs tool of xray-mcp-server: the Xray part, then the Caddy
\* part, each in its own try.
CaddyDeployConfigs(xray_config_path, caddy_config_path, xray_write, xray_restart, caddy_write, caddy_reload) ==
    /\ UNCHANGED <<genCall, currentConfigs, subscription, lastGen>>
    /\ UNCHANGED <<files, lastCall, addedTo, procs, host>>
    /\ IF lastGen = NoObject
       THEN /\ toolResult' = [op |-> "deploy_configs",
                              error |-> <<"No configuration generated. Call generate_configs first.">>]
            /\ commands' = <<>>
            /\ UNCHANGED <<xrayFile, caddyMain, caddyFragment>>
       ELSE /\ xrayFile' = IF xray_write = "ok" THEN generate_xray_json(lastGen) ELSE xrayFile
            /\ caddyMain' = IF caddy_write = "ok"
                            THEN CaddyMainAfter(caddy_config_path, generate_caddyfile(lastGen))
                            ELSE caddyMain
            /\ caddyFragment' = IF caddy_write = "ok"
                                THEN CaddyFragmentAfter(caddy_config_path, generate_caddyfile(lastGen))
                                ELSE caddyFragment
            /\ commands' = (IF xray_write = "ok" THEN <<"systemctl restart xray">> ELSE <<>>)
                           \o (IF caddy_write = "ok" THEN <<"systemctl reload caddy">> ELSE <<>>)
            /\ toolResult' =
                  [op |-> "deploy_configs",
                   xray |-> ArtifactResult(xray_config_path, xray_write, xray_restart, "restart"),
                   caddy |-> ArtifactResult(caddy_config_path, caddy_write, caddy_reload, "reload")]

\* ConfigGenerator.save_configs() of xray-mcp-server with its default paths:
\* three writes in a row, the first that raises ends the call.  failed is
\* the number of the write that raises, 0 when none does.
SaveConfigs(failed) ==
    /\ lastGen # NoObject
    /\ xrayFile' = IF failed = 1 THEN xrayFile ELSE generate_xray_json(lastGen)
    /\ caddyMain' = IF failed \in {1, 2} THEN caddyMain ELSE generate_main_caddyfile(lastGen)
    /\ caddyFragment' = IF failed \in {1, 2, 3} THEN caddyFragment ELSE generate_caddyfile(lastGen)
    /\ toolResult' = [op |-> "save_configs",
                      raised |-> IF failed = 0 THEN None ELSE <<"PermissionError">>,
                      returned |-> IF failed = 0
                                   THEN <<XrayConfigPath, CaddyMainPath, CaddyConfDPath>>
                                   ELSE <<>>]
    /\ commands' = <<>>
    /\ UNCHANGED <<genCall, currentConfigs, subscription, lastGen>>
    /\ UNCHANGED <<files, lastCall, addedTo, procs, host>>

\* The inputs the Caddy deployment is driven with.
CaddyDomainListSamples == DomainListSamples \ { <<>> }

CaddyPathSamples == { <<"/","p">> }

CaddyCdnSamples == { None, <<"c","d","n">> }

CaddyConfigPathSamples == { CaddyMainPath, CaddyConfDPath }

\* A Caddyfile the administrator wrote.
UserCaddyfile == <<"example.org {\n", "    respond \"hello\"\n", "}\n">>

InitCaddy ==
    /\ caddyMain \in {NoFile, UserCaddyfile, to_main_caddyfile}
    /\ caddyFragment = NoFile
    /\ toolResult = NoResult /\ commands = <<>>
    /\ host = DefaultHost
    /\ lastGen = NoObject /\ genCall = NoGenCall /\ currentConfigs = <<>>
    /\ subscription = NoObject /\ xrayFile = NoObject
    /\ files = <<>> /\ lastCall = NoCall /\ addedTo = <<>> /\ procs = <<>>

NextCaddy ==
    \/ \E domains \in CaddyDomainListSamples, path \in CaddyPathSamples, cdn \in CaddyCdnSamples :
          NewCaddyConfigGenerator(domains, 10000, path, cdn, <<"/","r">>, <<"u","1">>)
    \/ \E domains \in DomainListSamples, path \in CaddyPathSamples :
          CaddyGenerateConfigs(domains, path, 10000, <<"/","r">>, <<"u","1">>)
    \/ \E caddy_config_path \in CaddyConfigPathSamples, x \in PartOutcomes, c \in PartOutcomes :
          CaddyDeployConfigs(XrayConfigPath, caddy_config_path, x[1], x[2], c[1], c[2])
    \/ \E failed \in 0..3 : SaveConfigs(failed)

SpecCaddy == InitCaddy /\ [][NextCaddy]_vars

-----------------------------------------------------------------------------
(* xray-mcp-server/subscription.py: VlessNode, SubscriptionGenerator and   *)
(* SubscriptionService.  The texts of this part are sequences of           *)
(* characters, so that they can be encoded byte by byte.                   *)

\* The characters urllib.parse.quote never encodes.
AlwaysSafe == Range(ascii_lowercase) \cup Range(ascii_uppercase) \cup Range(digits)
              \cup {"_", ".", "-", "~"}

\* The ASCII code of a character, for the characters the texts are made of.
Punctuation == <<"\n", " ", "#", "%", "&", "+", "-", ".", "/", ":", "=", "?", "@", "_", "~">>

PunctuationCodes == <<10, 32, 35, 37, 38, 43, 45, 46, 47, 58, 61, 63, 64, 95, 126>>

IndexIn(seq, c) == CHOOSE i \in 1..Len(seq) : seq[i] = c

Ord(c) ==
    IF c \in Range(ascii_lowercase) THEN 96 + IndexIn(ascii_lowercase, c)
    ELSE IF c \in Range(ascii_uppercase) THEN 64 + IndexIn(ascii_uppercase, c)
    ELSE IF c \in Range(digits) THEN 47 + IndexIn(digits, c)
    ELSE PunctuationCodes[IndexIn(Punctuation, c)]

Chr(n) ==
    IF n \in 97..122 THEN ascii_lowercase[n - 96]
    ELSE IF n \in 65..90 THEN ascii_uppercase[n - 64]
    ELSE IF n \in 48..57 THEN digits[n - 47]
    ELSE Punctuation[IndexIn(PunctuationCodes, n)]

HexDigits == <<"0", "1", "2", "3", "4", "5", "6", "7", "8", "9", "A", "B", "C", "D", "E", "F">>

\* quote(c, safe=''): '%' and the two upper-case hex digits of the byte.
QuoteChar(c) ==
    IF c \in AlwaysSafe THEN <<c>>
    ELSE <<"%", HexDigits[(Ord(c) \div 16) + 1], HexDigits[(Ord(c) % 16) + 1]>>

\* urllib.parse.quote(s, safe='')
RECURSIVE Quote(_)
Quote(s) == IF s = <<>> THEN <<>> ELSE QuoteChar(Head(s)) \o Quote(Tail(s))

\* sep.join(parts)
RECURSIVE JoinWith(_, _)
JoinWith(sep, parts) ==
    IF parts = <<>> THEN <<>>
    ELSE IF Len(parts) = 1 THEN parts[1]
    ELSE parts[1] \o sep \o JoinWith(sep, Tail(parts))

\* VlessNode(uuid, domain, port, path) with the defaults of the dataclass.
VlessNode(uuid, domain, port, path, sni) ==
    [uuid |-> uuid, domain |-> domain, port |-> port, path |-> path,
     security |-> <<"t", "l", "s">>, network |-> <<"x", "h", "t", "t", "p">>, sni |-> sni]

\* VlessNode.name
NodeName(node) == node.domain

\* to_uri that leaves the path as it is, as quote() with its default safe='/' does
\* for a path of safe characters.
to_uri_PathNotQuoted(node) ==
    LET params == << <<"t", "y", "p", "e", "=">> \o node.network,
                     <<"s", "e", "c", "u", "r", "i", "t", "y", "=">> \o node.security,
                     <<"p", "a", "t", "h", "=">> \o node.path >>
                  \o (IF Truthy(node.sni) THEN << <<"s", "n", "i", "=">> \o node.sni >> ELSE <<>>)
        param_str == JoinWith(<<"&">>, params)
        name == Quote(NodeName(node))
    IN <<"v", "l", "e", "s", "s", ":", "/", "/">> \o node.uuid \o <<"@">> \o node.domain \o <<":">> \o IntToStr(node.port)
       \o <<"?">> \o param_str \o <<"#">> \o name

\* VlessNode.to_uri()
to_uri(node) ==
    LET params == << <<"t", "y", "p", "e", "=">> \o node.network,
                     <<"s", "e", "c", "u", "r", "i", "t", "y", "=">> \o node.security,
                     <<"p", "a", "t", "h", "=">> \o Quote(node.path) >>
                  \o (IF Truthy(node.sni) THEN << <<"s", "n", "i", "=">> \o node.sni >> ELSE <<>>)
        param_str == JoinWith(<<"&">>, params)
        name == Quote(NodeName(node))
    IN <<"v", "l", "e", "s", "s", ":", "/", "/">> \o node.uuid \o <<"@">> \o node.domain \o <<":">> \o IntToStr(node.port)
       \o <<"?">> \o param_str \o <<"#">> \o name

\* str.encode() and bytes.decode() of a text of ASCII characters.
Encode(text) == [i \in 1..Len(text) |-> Ord(text[i])]

Decode(bytes) == [i \in 1..Len(bytes) |-> Chr(bytes[i])]

\* The alphabet of base64.
B64Alphabet == ascii_uppercase \o ascii_lowercase \o digits \o <<"+", "/">>

\* base64.b64encode(bytes): three bytes give four characters, and the last
\* group is padded with '='.
RECURSIVE b64encode(_)
b64encode(bytes) ==
    IF bytes = <<>> THEN <<>>
    ELSE IF Len(bytes) = 1
    THEN <<B64Alphabet[(bytes[1] \div 4) + 1],
           B64Alphabet[((bytes[1] % 4) * 16) + 1], "=", "=">>
    ELSE IF Len(bytes) = 2
    THEN <<B64Alphabet[(bytes[1] \div 4) + 1],
           B64Alphabet[((bytes[1] % 4) * 16) + (bytes[2] \div 16) + 1],
           B64Alphabet[((bytes[2] % 16) * 4) + 1], "=">>
    ELSE <<B64Alphabet[(bytes[1] \div 4) + 1],
           B64Alphabet[((bytes[1] % 4) * 16) + (bytes[2] \div 16) + 1],
           B64Alphabet[((bytes[2] % 16) * 4) + (bytes[3] \div 64) + 1],
           B64Alphabet[(bytes[3] % 64) + 1]>>
         \o b64encode(SubSeq(bytes, 4, Len(bytes)))

\* SubscriptionGenerator.__init__: one node per domain, in order.
SubscriptionGenerator(uuid, domains, port, path) ==
    [uuid |-> uuid, domains |-> domains, port |-> port, path |-> path,
     nodes |-> [i \in 1..Len(domains) |-> VlessNode(uuid, domains[i], port, path, None)]]

generate_uris(gen) == [i \in 1..Len(gen.nodes) |-> to_uri(gen.nodes[i])]

generate_plain(gen) == JoinWith(<<"\n">>, generate_uris(gen))

\* generate_base64 that joins the URIs with a space.
generate_base64_Spaces(gen) == b64encode(Encode(JoinWith(<<" ">>, generate_uris(gen))))

generate_base64(gen) == b64encode(Encode(JoinWith(<<"\n">>, generate_uris(gen))))

\* get_subscription that answers with empty content while unconfigured.
get_subscription_Unguarded(generator, format) ==
    IF generator = NoObject THEN <<>>
    ELSE IF format = "plain" THEN generate_plain(generator)
    ELSE generate_base64(generator)

\* SubscriptionService.get_subscription(format) on the generator the
\* service holds.
get_subscription(generator, format) ==
    IF generator = NoObject THEN None
    ELSE IF format = "plain" THEN generate_plain(generator)
    ELSE generate_base64(generator)

\* SubscriptionService.get_nodes()
get_nodes(generator) ==
    IF generator = NoObject THEN <<>>
    ELSE [i \in 1..Len(generator.nodes) |->
            [name |-> NodeName(generator.nodes[i]),
             domain |-> generator.nodes[i].domain,
             port |-> generator.nodes[i].port,
             uri |-> to_uri(generator.nodes[i])]]

\* The nodes to_uri is applied to on its own.
NodeDomainSamples == { <<"a",".","b">>, <<"A","_","b">>, <<"a","/","b">> }

NodePathSamples == { <<"/","p">>, <<"/","p","/","q"," ","r">>, <<>> }

NodePortSamples == {443, 10000}

NodeSniSamples == { None, <<>>, <<"o",".","b">> }

NodeSamples ==
    { VlessNode(uuid, domain, port, path, sni) :
          uuid \in UuidSamples, domain \in NodeDomainSamples, port \in NodePortSamples,
          path \in NodePathSamples, sni \in NodeSniSamples }

\* A run takes one node and renders its URI.
InitUri ==
    /\ toolResult \in { [op |-> "call to_uri", node |-> node] : node \in NodeSamples }
    /\ caddyMain = NoFile /\ caddyFragment = NoFile /\ commands = <<>>
    /\ host = DefaultHost
    /\ lastGen = NoObject /\ genCall = NoGenCall /\ currentConfigs = <<>>
    /\ subscription = NoObject /\ xrayFile = NoObject
    /\ files = <<>> /\ lastCall = NoCall /\ addedTo = <<>> /\ procs = <<>>

ToUri ==
    /\ toolResult.op = "call to_uri"
    /\ toolResult' = [op |-> "to_uri", node |-> toolResult.node, uri |-> to_uri(toolResult.node)]
    /\ UNCHANGED <<caddyMain, caddyFragment, commands>>
    /\ UNCHANGED <<lastGen, genCall, currentConfigs, subscription, xrayFile>>
    /\ UNCHANGED <<files, lastCall, addedTo, procs, host>>

NextUri == ToUri

SpecUri == InitUri /\ [][NextUri]_vars

\* The get_subscription tool of xray-mcp-server.
GetSubscription(format) ==
    LET generator == IF subscription = NoObject THEN NoObject
                     ELSE SubscriptionGenerator(subscription.uuid, subscription.domains,
                                                subscription.port, subscription.path)
        content == get_subscription(generator, format)
    IN
    /\ toolResult' =
          IF ~Truthy(content)
          THEN [op |-> "get_subscription",
                error |-> <<"No configuration generated. Call generate_configs first.">>]
          ELSE [op |-> "get_subscription", format |-> format, subscription |-> content,
                nodes |-> get_nodes(generator)]
    /\ commands' = <<>>
    /\ UNCHANGED <<caddyMain, caddyFragment>>
    /\ UNCHANGED <<lastGen, genCall, currentConfigs, subscription, xrayFile>>
    /\ UNCHANGED <<files, lastCall, addedTo, procs, host>>

\* The inputs the subscription is driven with.
SubDomainListSamples ==
    { <<>>, << <<"a",".","b">> >>, << <<"a",".","b">>, <<"c","/","d">> >>,
      << <<"c","/","d">>, <<"a",".","b">> >> }

SubPathSamples == { <<"/","p">>, <<"/","p","/","q">>, <<>> }

SubPortSamples == {443, 10000}

FormatSamples == {"base64", "plain"}

NextSub ==
    \/ \E domains \in SubDomainListSamples, path \in SubPathSamples, port \in SubPortSamples,
          ru \in UuidSamples :
            CaddyGenerateConfigs(domains, path, port, <<"/","r">>, ru)
    \/ \E format \in FormatSamples : GetSubscription(format)

SpecSub == InitCaddy /\ [][NextSub]_vars

\* The three tools of server.py together: generate, deploy, subscribe.
NextServe ==
    \/ \E domains \in DomainListSamples, path \in CaddyPathSamples, ru \in UuidSamples :
          CaddyGenerateConfigs(domains, path, 10000, <<"/","r">>, ru)
    \/ \E caddy_config_path \in CaddyConfigPathSamples, x \in PartOutcomes, c \in PartOutcomes :
          CaddyDeployConfigs(XrayConfigPath, caddy_config_path, x[1], x[2], c[1], c[2])
    \/ \E format \in FormatSamples : GetSubscription(format)

SpecServe == InitCaddy /\ [][NextServe]_vars

-----------------------------------------------------------------------------
(* xray-mcp-server/main.py: the REST process.  It has its own               *)
(* _current_config (lastGen) and its own subscription_service.              *)

\* POST /deploy.  After the domain check and the constructor the handler
\* calls subscription_service.update_config(..., cdn_host=request.cdn_host);
\* update_config(self, uuid, domains, port, path) takes no cdn_host, so the
\* call raises TypeError whatever the request holds: the handler ends there,
\* the framework answers 500, and the deployment code below the call never
\* runs.
RestDeploy(domains, xray_port, xray_path, cdn_host, random_path, random_uuid) ==
    /\ commands' = <<>>
    /\ UNCHANGED <<genCall, currentConfigs, subscription, xrayFile, caddyMain, caddyFragment>>
    /\ UNCHANGED <<files, lastCall, addedTo, procs, host>>
    /\ IF domains = <<>>
       THEN /\ toolResult' = [op |-> "POST /deploy", status |-> 400,
                              detail |-> <<"At least one domain is required">>]
            /\ UNCHANGED lastGen
       ELSE /\ lastGen' = CaddyConfigGenerator(domains, xray_port, xray_path, None, cdn_host,
                                               random_path, random_uuid)
            /\ toolResult' = [op |-> "POST /deploy", status |-> 500,
                              detail |-> <<"TypeError: unexpected keyword argument 'cdn_host'">>]

\* GET /subscription: 404 while nothing is configured.
RestGetSubscription(format) ==
    LET generator == IF subscription = NoObject THEN NoObject
                     ELSE SubscriptionGenerator(subscription.uuid, subscription.domains,
                                                subscription.port, subscription.path)
        content == get_subscription(generator, format)
    IN
    /\ toolResult' =
          IF ~Truthy(content)
          THEN [op |-> "GET /subscription", status |-> 404,
                detail |-> <<"No configuration generated. Call /deploy first.">>]
          ELSE [op |-> "GET /subscription", status |-> 200, format |-> format,
                subscription |-> content, nodes |-> get_nodes(generator)]
    /\ commands' = <<>>
    /\ UNCHANGED <<caddyMain, caddyFragment>>
    /\ UNCHANGED <<lastGen, genCall, currentConfigs, subscription, xrayFile>>
    /\ UNCHANGED <<files, lastCall, addedTo, procs, host>>

\* The requests the REST process is driven with.
RestDomainListSamples ==
    { <<>>, << <<"o",".","b">> >>, << <<"o",".","b">>, <<"a",".","b">> >> }

RestPathSamples == { None, <<"/","p">> }

RestPortSamples == {10000, 10001}

RestCdnSamples == { None, <<"c",".","d">> }

NextRest ==
    \/ \E domains \in RestDomainListSamples, path \in RestPathSamples, port \in RestPortSamples,
          cdn \in RestCdnSamples, ru \in UuidSamples :
            RestDeploy(domains, port, path, cdn, <<"/","r">>, ru)
    \/ \E format \in FormatSamples : RestGetSubscription(format)

\* os.getenv("DEPLOYMENT_MODE", "full")
DeploymentModes == {"full", "config_only", "container"}

InitRest ==
    /\ host \in { [DefaultHost EXCEPT !.mode = m] : m \in DeploymentModes }
    /\ caddyMain \in {NoFile, UserCaddyfile, to_main_caddyfile}
    /\ caddyFragment = NoFile
    /\ toolResult = NoResult /\ commands = <<>>
    /\ lastGen = NoObject /\ genCall = NoGenCall /\ currentConfigs = <<>>
    /\ subscription = NoObject /\ xrayFile = NoObject
    /\ files = <<>> /\ lastCall = NoCall /\ addedTo = <<>> /\ procs = <<>>

SpecRest == InitRest /\ [][NextRest]_vars

-----------------------------------------------------------------------------
(* api/mcp_server.py: the add_xray_service tool, which saves the Xray       *)
(* config.json and then writes the Nginx file of the domain, in one try.    *)

\* The whole body runs in one try: the first call that raises ends it, and
\* the except returns the same two keys whichever call it was.  xray_write
\* and nginx_write tell whether the write of config.json and the write of
\* the Nginx file raise.
McpAddXrayService(domain, xray_port, xray_path, cdn_host, random_path, random_uuid, xray_write, nginx_write) ==
    LET xray_gen == ConfigGenerator(<<domain>>, xray_port, xray_path, None, cdn_host,
                                    random_path, random_uuid)
        config == generate_xray_config(domain, xray_port, xray_gen.xray_path, None, None)
        config_file == XrayFileName(domain)
        args == <<domain, xray_port, xray_gen.xray_path, None, None>>
        nginx_error == IF nginx_write = "raised" THEN <<"PermissionError">>
                       ELSE WriteError(config_file)
        failure == [op |-> "add_xray_service", success |-> FALSE,
                    error |-> <<"PermissionError">>]
    IN
    /\ lastGen' = xray_gen
    /\ commands' = <<>>
    /\ UNCHANGED <<genCall, procs, caddyMain, caddyFragment, host>>
    /\ IF xray_write = "raised"
       THEN /\ toolResult' = failure
            /\ UNCHANGED <<xrayFile, files, addedTo, lastCall, currentConfigs, subscription>>
       ELSE /\ xrayFile' = generate_xray_json(xray_gen)
            /\ lastCall' = [NoCall EXCEPT
                    !.op = "add_xray_service", !.args = args, !.file = config_file,
                    !.raised = nginx_error,
                    !.repeats = Repeats("add_xray_service", args)]
            /\ IF nginx_error # None
               THEN /\ toolResult' = [failure EXCEPT !.error = nginx_error]
                    /\ UNCHANGED <<files, addedTo, currentConfigs, subscription>>
               ELSE /\ files' = FilesAfterWrite(files, config_file, config)
                    /\ addedTo' = AddedAfterWrite(config_file, <<"xray", domain>>)
                    /\ currentConfigs' = DictSet(currentConfigs, domain, xray_gen)
                    /\ subscription' = update_config(xray_gen.client_uuid, <<domain>>,
                                                      xray_gen.xray_path, cdn_host)
                    /\ toolResult' =
                          [op |-> "add_xray_service", success |-> TRUE,
                           service_type |-> "xray", domain |-> domain,
                           xray_port |-> xray_port, xray_path |-> xray_gen.xray_path,
                           uuid |-> xray_gen.client_uuid, cdn_host |-> cdn_host,
                           xray_config_path |-> XrayConfigPath,
                           nginx_config_path |-> config_file]

\* The calls the tool is driven with.
McpDomainSamples == { <<"a",".","b">>, <<"c",".","d">> }

McpPathSamples == { None, <<"/","p">> }

McpCdnSamples == { None, <<"c","d","n">> }

NextMcp ==
    \E domain \in McpDomainSamples, path \in McpPathSamples, cdn \in McpCdnSamples,
       xray_write \in WriteOutcomes, nginx_write \in WriteOutcomes :
          McpAddXrayService(domain, 10000, path, cdn, <<"/","r">>, <<"u","1">>,
                            xray_write, nginx_write)

SpecMcp == InitGen /\ [][NextMcp]_vars

\* The Nginx directory after the loop of deploy_configs wrote the files of
\* the items from i on; the write of item number failed raises and ends the
\* loop, the files written before it stay.
RECURSIVE NginxFilesAfter(_, _, _)
NginxFilesAfter(dir, i, failed) ==
    IF i > Len(currentConfigs) \/ i = failed THEN dir
    ELSE LET item == currentConfigs[i]
             config == generate_xray_config(item.domain, item.config.xray_port,
                                            item.config.xray_path, None, None)
         IN NginxFilesAfter(FilesAfterWrite(dir, XrayFileName(item.domain), config),
                            i + 1, failed)

\* The deploy_configs tool of the MCP server: config.json is written from
\* next(iter(_current_xray_configs.values())), the value of the first item
\* of the dict, then one Nginx file per item; each part in its own try.
McpDeployConfigs(xray_write, xray_restart, nginx_failed, nginx_reload) ==
    LET any_config == currentConfigs[1].config
        nginx_write == IF nginx_failed \in 1..Len(currentConfigs) THEN "raised" ELSE "ok"
    IN
    /\ UNCHANGED <<lastGen, genCall, currentConfigs, subscription>>
    /\ UNCHANGED <<lastCall, addedTo, procs, caddyMain, caddyFragment, host>>
    /\ IF currentConfigs = <<>>
       THEN /\ toolResult' = [op |-> "deploy_configs",
                              error |-> <<"no configuration generated">>]
            /\ commands' = <<>>
            /\ UNCHANGED <<xrayFile, files>>
       ELSE /\ xrayFile' = IF xray_write = "ok" THEN generate_xray_json(any_config)
                           ELSE xrayFile
            /\ files' = NginxFilesAfter(files, 1, nginx_failed)
            /\ commands' = (IF xray_write = "ok" THEN <<"systemctl restart xray">> ELSE <<>>)
                           \o (IF nginx_write = "ok" THEN <<"systemctl reload nginx">>
                               ELSE <<>>)
            /\ toolResult' =
                  [op |-> "deploy_configs",
                   xray |-> ArtifactResult(XrayConfigPath, xray_write, xray_restart, "restart"),
                   nginx |-> ArtifactResult(<<"/etc/nginx/conf.d">>, nginx_write,
                                            nginx_reload, "reload")]

\* Generating for one domain after the other, then deploying.  The writes of
\* add_xray_service succeed here.
LastDomainListSamples == { <<>>, << <<"a",".","b">> >>, << <<"c",".","d">> >> }

NextLast ==
    \/ \E domains \in LastDomainListSamples, ru \in UuidSamples :
          GenerateConfigs(domains, 10000, None, None, <<"/","r">>, ru)
    \/ \E domain \in McpDomainSamples, ru \in UuidSamples :
          McpAddXrayService(domain, 10000, None, None, <<"/","r">>, ru, "ok", "ok")
    \/ \E x \in PartOutcomes, nginx_failed \in 0..1, nginx_reload \in RunOutcomes :
          McpDeployConfigs(x[1], x[2], nginx_failed, nginx_reload)

SpecLast == InitGen /\ [][NextLast]_vars

\* The nodes of the list whose domain is domain:
\* [n for n in nodes if n.get("domain") == domain]
RECURSIVE NodesOf(_, _)
NodesOf(nodes, domain) ==
    IF nodes = <<>> THEN <<>>
    ELSE (IF Head(nodes).domain = domain THEN << Head(nodes) >> ELSE <<>>)
         \o NodesOf(Tail(nodes), domain)

\* The get_subscription tool of the MCP server.  The service answers from
\* the endpoint it was last configured with, on port 443.
McpGetSubscription(domain, format) ==
    LET generator == IF subscription = NoObject THEN NoObject
                     ELSE SubscriptionGenerator(subscription.uuid, subscription.domains,
                                                443, subscription.path)
        content == get_subscription(generator, format)
        all == get_nodes(generator)
        nodes == IF Truthy(domain) THEN NodesOf(all, domain) ELSE all
    IN
    /\ toolResult' =
          IF ~Truthy(content) /\ nodes = <<>>
          THEN [op |-> "get_subscription", asked |-> domain, success |-> FALSE,
                error |-> <<"no Xray service configured, add one with add_xray_service">>]
          ELSE [op |-> "get_subscription", asked |-> domain, success |-> TRUE,
                format |-> format, subscription |-> content, nodes |-> nodes,
                total_nodes |-> Len(nodes)]
    /\ commands' = <<>>
    /\ UNCHANGED <<caddyMain, caddyFragment, genVars>>
    /\ UNCHANGED <<files, lastCall, addedTo, procs, host>>

NextNodes ==
    \/ \E domain \in McpDomainSamples, ru \in UuidSamples,
          xray_write \in WriteOutcomes, nginx_write \in WriteOutcomes :
            McpAddXrayService(domain, 10000, None, None, <<"/","r">>, ru,
                              xray_write, nginx_write)
    \/ \E domain \in McpDomainSamples \cup {None}, format \in FormatSamples :
          McpGetSubscription(domain, format)

SpecNodes == InitGen /\ [][NextNodes]_vars

-----------------------------------------------------------------------------
(* reload_nginx: utils/nginx_installer.py, and the tool and the endpoint of *)
(* the same name in api/mcp_server.py and api/openapi_server.py.  Here      *)
(* commands keeps the commands of every call, each with the number of its   *)
(* call and how it ended, and toolResult tells where the running call is.   *)

ReloadImpls == {"nginx_installer", "mcp_server", "openapi_server"}

\* How a command ends: return code 0, another return code, or subprocess.run
\* raises (nginx is not installed, the command times out).
CommandOutcomes == {"ok", "failed", "raised"}

\* The number of calls of reload_nginx a run makes.
MaxReloadCalls == 3

StderrSample == <<"syntax error">>

RaisedSample == <<"No such file or directory: 'nginx'">>

\* What a package manager prints when the package is there already.
AlreadyOutput == <<"n", "g", "i", "n", "x", " ", "i", "s", " ", "A", "l", "r", "e", "a", "d", "y", " ", "I", "n", "s", "t", "a", "l", "l", "e", "d">>

\* run_command: (success, output); what subprocess.run raises is caught and
\* returned as a failure.
run_command(outcome) ==
    IF outcome = "ok" THEN [success |-> TRUE, output |-> <<"OK">>]
    ELSE IF outcome = "failed" THEN [success |-> FALSE, output |-> StderrSample]
    ELSE IF outcome = "already" THEN [success |-> FALSE, output |-> AlreadyOutput]
    ELSE [success |-> FALSE, output |-> RaisedSample]

\* The test does not stop the call.
TestPassed_Always(impl, outcome) == TRUE

\* Whether the call goes on to the reload: test_success of run_command, or
\* test_result.returncode == 0.
TestPassed(impl, outcome) ==
    IF impl = "nginx_installer" THEN run_command(outcome).success ELSE outcome = "ok"

\* subprocess.run raising inside the tool or the endpoint: the except of
\* the tool returns a failure, the endpoint answers 500.
ReloadRaised(impl, call) ==
    IF impl = "mcp_server"
    THEN [op |-> "reload_nginx", impl |-> impl, call |-> call, at |-> "returned",
          success |-> FALSE, error |-> RaisedSample]
    ELSE [op |-> "reload_nginx", impl |-> impl, call |-> call, at |-> "returned",
          status |-> 500, detail |-> RaisedSample]

\* What the call returns when the test did not pass.  The message of the MCP
\* tool is Chinese for "configuration test failed, reload not run".
TestFailedResult(impl, call, outcome) ==
    IF impl = "nginx_installer"
    THEN [op |-> "reload_nginx", impl |-> impl, call |-> call, at |-> "returned",
          success |-> FALSE,
          message |-> <<"Configuration test failed: ">> \o run_command(outcome).output]
    ELSE [op |-> "reload_nginx", impl |-> impl, call |-> call, at |-> "returned",
          success |-> FALSE,
          error |-> IF impl = "mcp_server"
                    THEN <<"configuration test failed, reload not run">>
                    ELSE <<"Configuration test failed, reload aborted">>,
          test_output |-> StderrSample]

\* What the call returns once the reload command ended.
ReloadResult(impl, call, outcome) ==
    IF impl = "nginx_installer"
    THEN [op |-> "reload_nginx", impl |-> impl, call |-> call, at |-> "returned",
          success |-> run_command(outcome).success,
          message |-> IF run_command(outcome).success
                      THEN <<"Nginx reloaded successfully">>
                      ELSE <<"Nginx reload failed: ">> \o run_command(outcome).output]
    ELSE [op |-> "reload_nginx", impl |-> impl, call |-> call, at |-> "returned",
          success |-> (outcome = "ok"),
          message |-> IF outcome = "ok"
                      THEN (IF impl = "mcp_server" THEN <<"Nginx reloaded">>
                            ELSE <<"Nginx reloaded successfully">>)
                      ELSE (IF impl = "mcp_server" THEN <<"reload failed">>
                            ELSE <<"Reload failed">>),
          output |-> IF outcome = "ok" THEN <<"OK">> ELSE StderrSample]

ReloadRunning == toolResult.op = "reload_nginx" /\ toolResult.at # "returned"

CallsMade == Cardinality({ i \in 1..Len(commands) : commands[i].cmd = "nginx -t" })

\* The last command ended with outcome.
Ended(outcome) == [commands EXCEPT ![Len(commands)].outcome = outcome]

\* reload_nginx is called: it runs the configuration test first.
ReloadNginx(impl) ==
    /\ ~ReloadRunning
    /\ CallsMade < MaxReloadCalls
    /\ commands' = Append(commands, [cmd |-> "nginx -t", call |-> CallsMade + 1,
                                     outcome |-> "running"])
    /\ toolResult' = [op |-> "reload_nginx", impl |-> impl, call |-> CallsMade + 1,
                      at |-> "test"]
    /\ UNCHANGED <<caddyMain, caddyFragment, genVars>>
    /\ UNCHANGED <<files, lastCall, addedTo, procs, host>>

\* The configuration test ends: the call returns, or runs the reload.
NginxTestEnds(outcome) ==
    LET impl == toolResult.impl
        call == toolResult.call
    IN
    /\ ReloadRunning /\ toolResult.at = "test"
    /\ IF outcome = "raised" /\ impl # "nginx_installer"
       THEN /\ commands' = Ended(outcome)
            /\ toolResult' = ReloadRaised(impl, call)
       ELSE IF TestPassed(impl, outcome)
       THEN /\ commands' = Append(Ended(outcome), [cmd |-> "nginx -s reload", call |-> call,
                                                   outcome |-> "running"])
            /\ toolResult' = [toolResult EXCEPT !.at = "reload"]
       ELSE /\ commands' = Ended(outcome)
            /\ toolResult' = TestFailedResult(impl, call, outcome)
    /\ UNCHANGED <<caddyMain, caddyFragment, genVars>>
    /\ UNCHANGED <<files, lastCall, addedTo, procs, host>>

\* The reload command ends and the call returns.
NginxReloadEnds(outcome) ==
    LET impl == toolResult.impl
        call == toolResult.call
    IN
    /\ ReloadRunning /\ toolResult.at = "reload"
    /\ commands' = Ended(outcome)
    /\ toolResult' = IF outcome = "raised" /\ impl # "nginx_installer"
                     THEN ReloadRaised(impl, call)
                     ELSE ReloadResult(impl, call, outcome)
    /\ UNCHANGED <<caddyMain, caddyFragment, genVars>>
    /\ UNCHANGED <<files, lastCall, addedTo, procs, host>>

NextReload ==
    \/ \E impl \in ReloadImpls : ReloadNginx(impl)
    \/ \E outcome \in CommandOutcomes : NginxTestEnds(outcome)
    \/ \E outcome \in CommandOutcomes : NginxReloadEnds(outcome)

SpecReload == InitGen /\ [][NextReload]_vars

-----------------------------------------------------------------------------
(* utils/nginx_installer.py install_nginx, utils/xray_installer.py          *)
(* install_xray and core/installer.py Installer.install_missing.  Here      *)
(* commands holds every call of a check or an installer and every shell     *)
(* command, each with how it ended.                                         *)

DistroFamilies == {"debian", "rhel", "arch", "unknown"}

InstallComponents == {"xray", "nginx"}

\* The outcome of a shell command: return code 0, another return code, another
\* return code with 'already installed' in the output, or an exception.
InstallOutcomes == {"ok", "failed", "already", "raised"}

\* The commands install_nginx runs, by distribution family.
NginxInstallCommands(distro) ==
    IF distro = "debian" THEN <<"apt-get update", "apt-get install -y nginx">>
    ELSE IF distro = "rhel"
    THEN <<"yum install -y epel-release || dnf install -y epel-release",
           "yum install -y nginx || dnf install -y nginx">>
    ELSE IF distro = "arch" THEN <<"pacman -Sy --noconfirm nginx">>
    ELSE <<>>

\* The most commands a distribution family has.
MaxCommands == 2

XrayInstallCommand ==
    "bash <(curl -L https://github.com/XTLS/Xray-install/raw/main/install-release.sh) install"

\* piece in text
InText(piece, text) ==
    \E i \in 0..(Len(text) - Len(piece)) : SubSeq(text, i + 1, i + Len(piece)) = piece

\* No command stops the installation.
CommandStops_Never(result) == FALSE

\* if not success and "already installed" not in output.lower()
CommandStops(result) ==
    ~result.success /\ ~InText(<<"a", "l", "r", "e", "a", "d", "y", " ", "i", "n", "s", "t", "a", "l", "l", "e", "d">>, Lower(result.output))

Ran(cmd, outcome) == [cmd |-> cmd, outcome |-> outcome]

\* The loop of install_nginx from command i on: the commands it runs and
\* what it returns.
RECURSIVE RunCommands(_, _, _)
RunCommands(cmds, outcomes, i) ==
    IF i > Len(cmds)
    THEN [success |-> TRUE, message |-> <<"Nginx installed successfully">>, ran |-> <<>>]
    ELSE IF CommandStops(run_command(outcomes[i]))
    THEN [success |-> FALSE,
          message |-> <<"Command failed: ", cmds[i], "\n">> \o run_command(outcomes[i]).output,
          ran |-> << Ran(cmds[i], outcomes[i]) >>]
    ELSE LET rest == RunCommands(cmds, outcomes, i + 1)
         IN [rest EXCEPT !.ran = << Ran(cmds[i], outcomes[i]) >> \o rest.ran]

install_nginx(distro, outcomes) ==
    IF distro \notin {"debian", "rhel", "arch"}
    THEN [success |-> FALSE, message |-> <<"Unsupported distribution: ", distro>>,
          ran |-> <<>>]
    ELSE RunCommands(NginxInstallCommands(distro), outcomes, 1)

install_xray(outcome) ==
    IF run_command(outcome).success
    THEN [success |-> TRUE, message |-> <<"Xray installed successfully">>,
          ran |-> << Ran(XrayInstallCommand, outcome) >>]
    ELSE [success |-> FALSE,
          message |-> <<"Xray installation failed: ">> \o run_command(outcome).output,
          ran |-> << Ran(XrayInstallCommand, outcome) >>]

\* check_xray_installed / check_nginx_installed: whether the binary is found.
check_software_installed(name) == [installed |-> name \in host.installed]

\* Every component is installed, whatever the check says.
ShouldInstall_Always(status) == TRUE

\* if not xray_status.installed / if not nginx_status.installed
ShouldInstall(status) == ~status.installed

\* One component of install_missing: its check, its installer when the check
\* calls for it, and its entry of the result.
InstallComponent(name, installation) ==
    IF ShouldInstall(check_software_installed(name))
    THEN [calls |-> << Ran("call check_" \o name \o "_installed", "ok"),
                       Ran("call install_" \o name, IF installation.success THEN "ok" ELSE "failed") >>
                    \o installation.ran,
          entry |-> [success |-> installation.success, message |-> installation.message]]
    ELSE [calls |-> << Ran("call check_" \o name \o "_installed", "ok") >>,
          entry |-> [success |-> TRUE, message |-> <<"Already installed">>]]

\* The components found on the machine after an installation.
InstalledAfter(name, installation) ==
    IF installation.success THEN host.installed \cup {name} ELSE host.installed

\* install_nginx() called on its own.
InstallNginx(outcomes) ==
    LET installation == install_nginx(host.distro, outcomes)
    IN
    /\ commands' = installation.ran
    /\ toolResult' = [op |-> "install_nginx", success |-> installation.success,
                      message |-> installation.message]
    /\ host' = [host EXCEPT !.installed = InstalledAfter("nginx", installation)]
    /\ UNCHANGED <<caddyMain, caddyFragment, genVars>>
    /\ UNCHANGED <<files, lastCall, addedTo, procs>>

\* Installer.install_missing()
InstallMissing(xray_outcome, nginx_outcomes) ==
    LET xray == InstallComponent("xray", install_xray(xray_outcome))
        nginx == InstallComponent("nginx", install_nginx(host.distro, nginx_outcomes))
    IN
    /\ UNCHANGED <<caddyMain, caddyFragment, genVars>>
    /\ UNCHANGED <<files, lastCall, addedTo, procs>>
    /\ IF ~host.root
       THEN /\ commands' = <<>>
            /\ toolResult' = [op |-> "install_missing", success |-> FALSE,
                              error |-> <<"Root privileges required">>]
            /\ UNCHANGED host
       ELSE /\ commands' = xray.calls \o nginx.calls
            /\ toolResult' = [op |-> "install_missing", xray |-> xray.entry,
                              nginx |-> nginx.entry]
            /\ host' = [host EXCEPT !.installed =
                          { c \in InstallComponents :
                              \/ c \in host.installed
                              \/ c = "xray" /\ xray.entry.success
                              \/ c = "nginx" /\ nginx.entry.success }]

\* The machines the installers run on.
HostSamples ==
    { [DefaultHost EXCEPT !.root = r, !.distro = d, !.installed = i] :
        r \in BOOLEAN, d \in DistroFamilies, i \in SUBSET InstallComponents }

InitInstall ==
    /\ host \in HostSamples
    /\ caddyMain = NoFile /\ caddyFragment = NoFile
    /\ toolResult = NoResult /\ commands = <<>>
    /\ lastGen = NoObject /\ genCall = NoGenCall /\ currentConfigs = <<>>
    /\ subscription = NoObject /\ xrayFile = NoObject
    /\ files = <<>> /\ lastCall = NoCall /\ addedTo = <<>> /\ procs = <<>>

NextInstall ==
    \/ \E outcomes \in [1..MaxCommands -> InstallOutcomes] : InstallNginx(outcomes)
    \/ \E xray_outcome \in InstallOutcomes \ {"already"},
          nginx_outcomes \in [1..MaxCommands -> InstallOutcomes] :
            InstallMissing(xray_outcome, nginx_outcomes)

SpecInstall == InitInstall /\ [][NextInstall]_vars

-----------------------------------------------------------------------------
(* The registry claims, checked under Spec                                 *)

IsAdd(call) == call.op \in {"add_xray_service", "add_generic_service"}

IsRemove(call) == call.op = "remove_service"

\* The domain argument of an add call.
DomainOf(call) == call.args[1]

HasConfSuffix(n) ==
    Len(n) >= Len(ConfSuffix) /\ SubSeq(n, Len(n) - Len(ConfSuffix) + 1, Len(n)) = ConfSuffix

\* C1: an add that returns is followed by a listing that holds the returned
\* name, and only it when nothing was listed before; a remove of the name
\* an add just returned gives True and the name is no longer listed; and at
\* all times a name the registry was called on is listed if and only if the
\* last call on it was an add.
C1_AddThenListed ==
    (IsAdd(lastCall') /\ lastCall'.raised = None) =>
        /\ lastCall'.file \in Listed(files')
        /\ (Listed(files) = {} => Listed(files') = {lastCall'.file})

C1_RemoveAfterAdd ==
    (/\ IsAdd(lastCall) /\ lastCall.raised = None
     /\ IsRemove(lastCall') /\ lastCall'.args = <<lastCall.file>>) =>
        /\ lastCall'.raised = None
        /\ lastCall'.ok
        /\ lastCall.file \notin Listed(files')

C1_ListedIffLastAdd ==
    \A e \in DOMAIN addedTo : (e \in Listed(files)) <=> (addedTo[e] # {})

C1_RoundTrip ==
    /\ [][C1_AddThenListed /\ C1_RemoveAfterAdd]_vars
    /\ []C1_ListedIffLastAdd

\* An added entry was removed again, while another added entry stays listed.
C1_Witness ==
    /\ IsRemove(lastCall) /\ lastCall.ok
    /\ lastCall.args = << XrayFileName(<<"a",".","b">>) >>
    /\ XrayFileName(<<"a",".","b">>) \notin Listed(files)
    /\ XrayFileName(<<"A",".","b">>) \in Listed(files)

\* The normalization the specification gives for a domain: lower-case, and
\* every character outside [a-z0-9-] replaced by '-'.
NormalChars == Range(ascii_lowercase) \cup Range(digits) \cup {"-"}

NormalizedDomain(domain) ==
    [i \in 1..Len(domain) |->
        IF LowerChar(domain[i]) \in NormalChars THEN LowerChar(domain[i]) ELSE "-"]

KindPrefix(call) ==
    IF call.op = "add_xray_service" THEN <<"x","r","a","y">>
    ELSE Replace(Lower(call.args[3]), " ", "-")

\* C2: the file name an add computes is {kindPrefix}-{normalizedDomain}.conf,
\* so before the extension it holds only characters of [a-z0-9-].
C2_NormalizedFileName ==
    IsAdd(lastCall) =>
        /\ lastCall.file =
              KindPrefix(lastCall) \o <<"-">> \o NormalizedDomain(DomainOf(lastCall)) \o ConfSuffix
        /\ \A i \in 1..(Len(lastCall.file) - Len(ConfSuffix)) : lastCall.file[i] \in NormalChars

\* The entries the registry wrote and has not removed.
LiveEntries == { e \in DOMAIN addedTo : addedTo[e] # {} }

\* C3: no file stands for two distinct services (kind or name, and domain),
\* and as many entries are listed as distinct services were added and not
\* removed.
C3_OneFilePerService ==
    /\ \A e \in DOMAIN addedTo : Cardinality(addedTo[e]) <= 1
    /\ Cardinality(LiveEntries) = Cardinality(UNION { addedTo[e] : e \in DOMAIN addedTo })

\* C4: remove_service leaves every file but the named one as it was,
\* whatever it returns, and creates none.
C4_Step ==
    IsRemove(lastCall') =>
        /\ DOMAIN files' \subseteq DOMAIN files
        /\ \A n \in DOMAIN files :
              n # Resolve(lastCall'.args[1]).entry => (n \in DOMAIN files' /\ files'[n] = files[n])

C4_RemoveFrame == [][C4_Step]_vars

\* A remove returned True and the directory still holds other files.
C4_Witness ==
    /\ IsRemove(lastCall) /\ lastCall.ok
    /\ Cardinality(DOMAIN files) >= 2
    /\ \E n \in DOMAIN files : n \in DOMAIN addedTo

\* C5: remove_service of a name that is not there returns False, raises
\* nothing and changes nothing; a remove_service that follows a
\* remove_service of the same name returns False and changes nothing.
C5_AbsentStep ==
    (IsRemove(lastCall') /\ ~Exists(files, lastCall'.args[1])) =>
        /\ lastCall'.raised = None
        /\ ~lastCall'.ok
        /\ files' = files

C5_SecondStep ==
    (IsRemove(lastCall') /\ lastCall'.repeats \in {"returned_true", "returned"}) =>
        /\ lastCall'.raised = None
        /\ ~lastCall'.ok
        /\ files' = files

C5_RemoveAbsent == [][C5_AbsentStep /\ C5_SecondStep]_vars

\* The second of two removes of an added entry returned False, after the
\* first had returned True.
C5_Witness ==
    /\ IsRemove(lastCall) /\ ~lastCall.ok /\ lastCall.raised = None
    /\ lastCall.repeats = "returned_true"
    /\ lastCall.args = << XrayFileName(<<"a",".","b">>) >>
    /\ files # <<>>

\* The text an add call renders from its arguments.
TextOf(call) ==
    IF call.op = "add_xray_service"
    THEN generate_xray_config(call.args[1], call.args[2], call.args[3], call.args[4], call.args[5])
    ELSE generate_service_config(call.args[1], call.args[2], call.args[3], call.args[4],
                                 call.args[5], call.args[6], call.args[7])

\* C6: an add that returns leaves its file holding exactly the text it
\* rendered, adds no entry but that file and changes no other; repeating
\* the same add changes nothing.
C6_Step ==
    (IsAdd(lastCall') /\ lastCall'.raised = None) =>
        /\ DOMAIN files' = (DOMAIN files) \cup {lastCall'.file}
        /\ files'[lastCall'.file] = TextOf(lastCall')
        /\ \A n \in DOMAIN files : n # lastCall'.file => files'[n] = files[n]
        /\ (lastCall'.repeats = "returned" => files' = files)

C6_AddOverwrites == [][C6_Step]_vars

\* An add wrote over the file another service had been written to.
C6_Witness ==
    /\ lastCall.op = "add_xray_service" /\ lastCall.raised = None
    /\ DomainOf(lastCall) = <<"a","-","b">>
    /\ <<"xray", <<"a",".","b">> >> \in addedTo[lastCall.file]
    /\ files[lastCall.file] = TextOf(lastCall)

\* C7: list_services returns exactly the names of the directory's files
\* that end in .conf.
C7_ListIsConfFiles ==
    (lastCall.op = "list_services") =>
        lastCall.listed = { n \in DOMAIN files : HasConfSuffix(n) }

\* A listing held a foreign .conf file and an added one, and left out a
\* file with another extension.
C7_Witness ==
    /\ lastCall.op = "list_services"
    /\ <<"d",".","c","o","n","f">> \in lastCall.listed
    /\ XrayFileName(<<"a",".","b">>) \in lastCall.listed
    /\ <<"n",".","t","x","t">> \in (DOMAIN files) \ lastCall.listed

-----------------------------------------------------------------------------
(* The concurrency claims, checked under SpecConc                          *)

AllDone == \A p \in Procs : procs[p].pc = "done"

\* C8: when two adds of one file name have both ended, the file holds
\* exactly the text of one of them; when an add and a remove of its file
\* name have both ended, the file is gone or holds exactly the add's text.
C8_LastWriterWins ==
    AllDone =>
        \A p, q \in Procs :
            (/\ p # q
             /\ procs[p].op = "add_xray_service"
             /\ procs[q].file = procs[p].file) =>
                IF procs[q].op = "add_xray_service"
                THEN /\ procs[p].file \in DOMAIN files
                     /\ files[procs[p].file] \in {procs[p].text, procs[q].text}
                ELSE \/ procs[p].file \notin DOMAIN files
                     \/ files[procs[p].file] = procs[p].text

-----------------------------------------------------------------------------
(* The claims on config generation, checked under SpecGen and SpecPath     *)

IsBuild(call) == call.op \in {"ConfigGenerator", "generate_configs"}

\* C9: building an endpoint config with an empty domain list ends in an
\* error, produces no ConfigGenerator and leaves the current configs, the
\* subscription state and the written config as they were.
C9_Step ==
    (IsBuild(genCall') /\ genCall'.domains = <<>>) =>
        /\ genCall'.error # None
        /\ ~genCall'.built
        /\ UNCHANGED <<lastGen, currentConfigs, subscription, xrayFile>>

C9_EmptyDomainsRejected == [][C9_Step]_vars

\* The 62 alphanumeric characters.
Alphanumerics == Range(ascii_lowercase) \cup Range(ascii_uppercase) \cup Range(digits)

IsRandomPath(path, n) ==
    /\ Len(path) = n + 1
    /\ path[1] = "/"
    /\ \A i \in 2..(n + 1) : path[i] \in Alphanumerics

\* C10: generate_random_path(n) returns '/' and then exactly n of the 62
\* alphanumeric characters, and a ConfigGenerator built with no path has a
\* path of that form with n = 16.
C10_RandomPathForm ==
    /\ Cardinality(Alphanumerics) = 62
    /\ Range(chars) = Alphanumerics
    /\ (genCall.op = "generate_random_path") => IsRandomPath(genCall.path, genCall.length)
    /\ (genCall.op = "ConfigGenerator" /\ genCall.xray_path = None) =>
            /\ IsRandomPath(lastGen.xray_path, 16)
            /\ Len(lastGen.xray_path) = 17

\* A ConfigGenerator built with no path holds a generated path that mixes
\* both drawn characters.
C10_Witness ==
    /\ genCall.op = "ConfigGenerator" /\ genCall.xray_path = None
    /\ lastGen.xray_path[1] = "/"
    /\ lastGen.xray_path[2] = "a"
    /\ lastGen.xray_path[17] = "9"

-----------------------------------------------------------------------------
(* The claims on the built endpoint config, checked under SpecBuild        *)

StartsWithSlash(path) == Len(path) >= 1 /\ path[1] = "/"

\* The units of a rendered text that follow the unit at position i.
After(text, i) == SubSeq(text, i + 1, Len(text))

\* The path of the location matcher of a rendered Xray server block: what
\* stands between 'location ~ ^' and ' {'.
MatcherPath(text) ==
    LET i == CHOOSE k \in 1..Len(text) : text[k] = "    location ~ ^"
        rest == After(text, i)
        j == CHOOSE k \in 1..Len(rest) : rest[k] = " {\n"
    IN SubSeq(rest, 1, j - 1)

\* The path in the Xray JSON of a generator.
JsonPath(gen) == generate_xray_json(gen).inbounds[1].streamSettings.xhttpSettings.path

\* C11: whatever is passed as xray_path, the path of the ConfigGenerator
\* built, the path in its Xray JSON and the path in the reverse-proxy
\* matcher rendered from it start with '/'.
C11_PathStartsWithSlash ==
    (genCall.op = "ConfigGenerator" /\ genCall.domains # <<>>) =>
        /\ StartsWithSlash(lastGen.xray_path)
        /\ StartsWithSlash(JsonPath(lastGen))
        /\ \A i \in 1..Len(lastGen.domains) :
              StartsWithSlash(MatcherPath(
                  generate_xray_config(lastGen.domains[i], lastGen.xray_port,
                                       lastGen.xray_path, None, None)))

\* C12: the Xray JSON of a generator, and the JSON save_xray_config() wrote,
\* has one inbound on 127.0.0.1 and the generator's port, protocol vless,
\* one client with the generator's uuid, network xhttp with the generator's
\* path, and one freedom outbound tagged direct.
XrayJsonShape(doc, gen) ==
    /\ Len(doc.inbounds) = 1
    /\ doc.inbounds[1].listen = "127.0.0.1"
    /\ doc.inbounds[1].port = gen.xray_port
    /\ doc.inbounds[1].protocol = "vless"
    /\ Len(doc.inbounds[1].settings.clients) = 1
    /\ doc.inbounds[1].settings.clients[1].id = gen.client_uuid
    /\ doc.inbounds[1].streamSettings.network = "xhttp"
    /\ doc.inbounds[1].streamSettings.xhttpSettings.path = gen.xray_path
    /\ Len(doc.outbounds) = 1
    /\ doc.outbounds[1].protocol = "freedom"
    /\ doc.outbounds[1].tag = "direct"

C12_XrayJsonShape ==
    /\ (lastGen # NoObject) => XrayJsonShape(generate_xray_json(lastGen), lastGen)
    /\ (xrayFile # NoObject) => XrayJsonShape(xrayFile, lastGen)

\* save_xray_config() wrote the JSON of a generator built with its own
\* uuid, port 443 and an explicit path.
C12_Witness ==
    /\ genCall.op = "save_xray_config"
    /\ xrayFile # NoObject
    /\ xrayFile.inbounds[1].port = 443
    /\ xrayFile.inbounds[1].settings.clients[1].id = <<"u","0">>
    /\ xrayFile.inbounds[1].streamSettings.xhttpSettings.path = <<"/","p">>

-----------------------------------------------------------------------------
(* The claims on the rendered texts                                        *)

\* piece occurs in text, unit by unit.
Contains(text, piece) ==
    \E i \in 0..(Len(text) - Len(piece)) : SubSeq(text, i + 1, i + Len(piece)) = piece

\* The location block that starts with the unit head: the units from head
\* to the first closing of a location block after it.
LocationBlock(text, head) ==
    LET i == CHOOSE k \in 1..Len(text) : text[k] = head
        j == CHOOSE k \in (i + 1)..Len(text) :
                /\ text[k] = "    }\n"
                /\ \A l \in (i + 1)..(k - 1) : text[l] # "    }\n"
    IN SubSeq(text, i, j)

XrayBlockShape(text, domain, port, path) ==
    /\ Contains(text, <<"server {\n",
                        "    listen 443 ssl http2;\n",
                        "    listen [::]:443 ssl http2;\n",
                        "    server_name ">> \o domain \o <<";\n">>)
    /\ Contains(text, <<"    location ~ ^">> \o path \o <<" {\n",
                        "        proxy_pass http://127.0.0.1:">> \o IntToStr(port) \o <<";\n">>)
    /\ Contains(LocationBlock(text, "    location ~ ^"), <<"        proxy_buffering off;\n">>)
    /\ Contains(LocationBlock(text, "    location ~ ^"), <<"        proxy_cache off;\n">>)
    /\ Contains(text, <<"    location / {\n", "        return 200 \"Welcome\";\n">>)

\* C13: the text generate_xray_config renders for a domain, port and path,
\* and the file add_xray_service writes it to, has a TLS server block on 443
\* named by the domain, a location matcher anchored on the path that
\* proxies to 127.0.0.1 and the port with buffering and caching off, and a
\* root location answering 200.
C13_XrayBlock ==
    (lastCall.op = "add_xray_service") =>
        /\ XrayBlockShape(TextOf(lastCall), lastCall.args[1], lastCall.args[2], lastCall.args[3])
        /\ (lastCall.raised = None) =>
              XrayBlockShape(files[lastCall.file], lastCall.args[1], lastCall.args[2],
                             lastCall.args[3])

\* add_xray_service wrote the block of A.b on port 10000.
C13_Witness ==
    /\ lastCall.op = "add_xray_service" /\ lastCall.raised = None
    /\ lastCall.args[1] = <<"A",".","b">> /\ lastCall.args[2] = 10000
    /\ lastCall.file \in DOMAIN files
    /\ Contains(files[lastCall.file], <<"    server_name ", "A", ".", "b", ";\n">>)

-----------------------------------------------------------------------------
(* The claims on the Caddy deployment, checked under SpecCaddy             *)

\* The positions where a site block of a Caddyfile text closes.
Closers(text) == { i \in 1..Len(text) : text[i] = "}\n" }

\* The k-th site block of a Caddyfile text: from the unit after the block
\* before it to its own closing unit.
NthBlock(text, k) ==
    LET c == CHOOSE i \in Closers(text) : Cardinality({ j \in Closers(text) : j <= i }) = k
        before == { j \in Closers(text) : j < c }
        start == IF before = {} THEN 1
                 ELSE (CHOOSE j \in before : \A l \in before : l <= j) + 1
    IN SubSeq(text, start, c)

\* A block is the site block of a domain: it opens with the domain (after
\* the line that joins it to what stands before), matches the path as a
\* prefix, proxies the matched requests to 127.0.0.1 and the port without
\* flushing delay and with the client address, and otherwise responds with
\* a text naming the domain.
IsSiteBlockOf(block, domain, path, port) ==
    /\ \/ Contains(SubSeq(block, 1, Len(domain) + 1), domain \o <<" {\n">>)
       \/ /\ block[1] = "\n"
          /\ SubSeq(block, 2, Len(domain) + 2) = domain \o <<" {\n">>
       \/ /\ Len(block) > 1 /\ block[1] = "# CDN Host: "
          /\ Contains(block, <<"\n", "\n">> \o domain \o <<" {\n">>)
    /\ Contains(block, <<"    @xhttp path ">> \o path \o <<"*\n",
                         "    reverse_proxy @xhttp 127.0.0.1:">> \o IntToStr(port) \o <<" {\n",
                         "        flush_interval -1\n",
                         "        header_up X-Forwarded-For {remote_host}\n",
                         "    }\n">>)
    /\ Contains(block, <<"    respond \"Welcome to ">> \o domain \o <<"\" 200\n", "}\n">>)
    /\ Cardinality({ i \in 1..Len(block) : block[i] = "    @xhttp path " }) = 1

CaddyfileShape(text, gen) ==
    /\ Cardinality(Closers(text)) = Len(gen.domains)
    /\ (text # <<>>) => (text[Len(text)] = "}\n")
    /\ \A k \in 1..Len(gen.domains) :
          IsSiteBlockOf(NthBlock(text, k), gen.domains[k], gen.xray_path, gen.xray_port)

\* C14: the Caddyfile of a generator, and the fragment save_configs() wrote
\* from it, has one site block per domain in the order of the domain list,
\* each with the path matcher, the reverse proxy to 127.0.0.1 and the port
\* with flush_interval -1 and the forwarded client address, and a static
\* response naming the block's own domain.
C14_SiteBlockPerDomain ==
    /\ (lastGen # NoObject) => CaddyfileShape(generate_caddyfile(lastGen), lastGen)
    /\ (toolResult.op = "save_configs" /\ toolResult.raised = None) =>
          CaddyfileShape(caddyFragment, lastGen)

\* save_configs() wrote the fragment of a generator with two domains and a
\* CDN host.
C14_Witness ==
    /\ toolResult.op = "save_configs" /\ toolResult.raised = None
    /\ Len(lastGen.domains) = 2
    /\ lastGen.cdn_host # None
    /\ caddyFragment = generate_caddyfile(lastGen)
    /\ Cardinality(Closers(caddyFragment)) = 2

\* C15: no deployment operation (deploy_configs, save_configs) changes a
\* main Caddyfile that exists: its content after the call is its content
\* before.
C15_Step ==
    (toolResult'.op \in {"deploy_configs", "save_configs"} /\ caddyMain # NoFile) =>
        (caddyMain' = caddyMain)

C15_MainCaddyfileUntouched == [][C15_Step]_vars

-----------------------------------------------------------------------------
(* The claims on the subscription, checked under SpecUri and SpecSub       *)

\* text starts with the characters of piece.
StartsWith(text, piece) == Len(text) >= Len(piece) /\ SubSeq(text, 1, Len(piece)) = piece

\* The URI the specification gives for a node, piece by piece in order.
ExpectedUri(node) ==
    <<"v", "l", "e", "s", "s", ":", "/", "/">> \o node.uuid \o <<"@">> \o node.domain \o <<":">> \o IntToStr(node.port)
    \o <<"?", "t", "y", "p", "e", "=">> \o node.network \o <<"&", "s", "e", "c", "u", "r", "i", "t", "y", "=", "t", "l", "s">> \o <<"&", "p", "a", "t", "h", "=">> \o Quote(node.path)
    \o (IF node.sni # None /\ node.sni # <<>> THEN <<"&", "s", "n", "i", "=">> \o node.sni ELSE <<>>)
    \o <<"#">> \o Quote(node.domain)

\* The fragment of a URI: what follows its last '#'.
Fragment(uri) ==
    LET i == CHOOSE k \in 1..Len(uri) : uri[k] = "#" /\ \A l \in (k + 1)..Len(uri) : uri[l] # "#"
    IN SubSeq(uri, i + 1, Len(uri))

\* C16: to_uri gives vless://{uuid}@{domain}:{port}?type={network}
\* &security=tls&path={quoted path}[&sni={sni}]#{quoted domain}, in this
\* order; no '/' is left in the quoted path and in the fragment, and
\* '&sni=' occurs exactly when the node has an sni.
C16_UriForm ==
    (toolResult.op = "to_uri") =>
        LET node == toolResult.node
            uri == toolResult.uri
        IN /\ uri = ExpectedUri(node)
           /\ "/" \notin Range(Quote(node.path))
           /\ "/" \notin Range(Fragment(uri))
           /\ (\E k \in 1..Len(node.path) : node.path[k] = "/") =>
                 Contains(uri, <<"&", "p", "a", "t", "h", "=">> \o <<"%", "2", "F">>)
           /\ Contains(uri, <<"&", "s", "n", "i", "=">>) <=> (node.sni # None /\ node.sni # <<>>)

\* The URI of a node with an sni and with a path and a domain that need
\* quoting was rendered.
C16_Witness ==
    /\ toolResult.op = "to_uri"
    /\ toolResult.node.sni = <<"o",".","b">>
    /\ toolResult.node.domain = <<"a","/","b">>
    /\ toolResult.node.path = <<"/","p","/","q"," ","r">>
    /\ Contains(toolResult.uri, <<"%", "2", "0">>)

\* base64.b64decode(text): four characters give three bytes, fewer where
\* the group is padded.
B64Value(c) == IndexIn(B64Alphabet, c) - 1

RECURSIVE b64decode(_)
b64decode(text) ==
    IF text = <<>> THEN <<>>
    ELSE LET v1 == B64Value(text[1])
             v2 == B64Value(text[2])
         IN IF text[3] = "="
            THEN << (v1 * 4) + (v2 \div 16) >>
            ELSE IF text[4] = "="
            THEN << (v1 * 4) + (v2 \div 16),
                    ((v2 % 16) * 16) + (B64Value(text[3]) \div 4) >>
            ELSE << (v1 * 4) + (v2 \div 16),
                    ((v2 % 16) * 16) + (B64Value(text[3]) \div 4),
                    ((B64Value(text[3]) % 4) * 64) + B64Value(text[4]) >>
                 \o b64decode(SubSeq(text, 5, Len(text)))

\* text.split("\n")
RECURSIVE SplitLines(_)
SplitLines(text) ==
    IF \A i \in 1..Len(text) : text[i] # "\n" THEN <<text>>
    ELSE LET i == CHOOSE k \in 1..Len(text) :
                     text[k] = "\n" /\ \A l \in 1..(k - 1) : text[l] # "\n"
         IN <<SubSeq(text, 1, i - 1)>> \o SplitLines(SubSeq(text, i + 1, Len(text)))

\* The generator the subscription service holds.
CurrentGenerator ==
    SubscriptionGenerator(subscription.uuid, subscription.domains, subscription.port,
                          subscription.path)

\* A line is the URI of a node built from the uuid, domain, port and path.
LineCarries(line, uuid, domain, port, path) ==
    /\ StartsWith(line, <<"v","l","e","s","s",":","/","/">> \o uuid \o <<"@">> \o domain
                        \o <<":">> \o IntToStr(port) \o <<"?">>)
    /\ Contains(line, <<"&","p","a","t","h","=">> \o Quote(path) \o <<"#">>)

SubscriptionRoundTrip(base64, plain) ==
    LET lines == SplitLines(Decode(b64decode(base64)))
    IN /\ lines = SplitLines(plain)
       /\ Len(lines) = Len(subscription.domains)
       /\ \A i \in 1..Len(lines) :
             LineCarries(lines[i], subscription.uuid, subscription.domains[i],
                         subscription.port, subscription.path)

\* C17: once a subscription is configured for a non-empty domain list, the
\* base64 content decodes to the lines of the plain content, one URI per
\* domain in the order of the list, each with the domain, port and path of
\* its node; the same holds of the content get_subscription serves.
C17_Base64RoundTrip ==
    /\ (subscription # NoObject) =>
          SubscriptionRoundTrip(generate_base64(CurrentGenerator), generate_plain(CurrentGenerator))
    /\ (toolResult.op = "get_subscription" /\ "format" \in DOMAIN toolResult) =>
          IF toolResult.format = "base64"
          THEN SubscriptionRoundTrip(toolResult.subscription, generate_plain(CurrentGenerator))
          ELSE SplitLines(toolResult.subscription) = generate_uris(CurrentGenerator)

\* get_subscription served the base64 content of two domains.
C17_Witness ==
    /\ toolResult.op = "get_subscription" /\ "format" \in DOMAIN toolResult
    /\ toolResult.format = "base64"
    /\ Len(subscription.domains) = 2
    /\ subscription.domains[1] = <<"c","/","d">>
    /\ Len(SplitLines(Decode(b64decode(toolResult.subscription)))) = 2

-----------------------------------------------------------------------------
(* The CDN scenario, checked under SpecRest                                 *)

\* The text that follows the first occurrence of piece in text.
AfterPiece(text, piece) ==
    LET i == CHOOSE k \in 0..(Len(text) - Len(piece)) :
                 /\ SubSeq(text, k + 1, k + Len(piece)) = piece
                 /\ \A l \in 0..(k - 1) : SubSeq(text, l + 1, l + Len(piece)) # piece
    IN SubSeq(text, i + Len(piece) + 1, Len(text))

\* A URI of the CDN scenario: it connects to the CDN host and its sni
\* parameter is the origin domain.
IsCdnUri(uri, uuid, cdn_host, origin) ==
    /\ StartsWith(uri, <<"v", "l", "e", "s", "s", ":", "/", "/">> \o uuid \o <<"@">> \o cdn_host \o <<":">>)
    /\ Contains(uri, <<"&", "s", "n", "i", "=">>)
    /\ StartsWith(AfterPiece(uri, <<"&", "s", "n", "i", "=">>), origin \o <<"#">>)

-----------------------------------------------------------------------------
(* Per-artifact reporting, checked under SpecMcp                            *)

\* What a result says about an artifact: it names the file it wrote.
SaysWritten(result, key) == key \in DOMAIN result

\* C19: a call of add_xray_service made while neither artifact exists
\* reports each artifact on its own: its result names the Xray config.json
\* exactly when the call wrote it, and the Nginx file exactly when the call
\* wrote it, so "Xray config saved, Nginx config not" shows in the result.
C19_Step ==
    (/\ xrayFile = NoObject
     /\ files = <<>>
     /\ toolResult'.op = "add_xray_service")
    => /\ SaysWritten(toolResult', "xray_config_path") <=> (xrayFile' # NoObject)
       /\ SaysWritten(toolResult', "nginx_config_path") <=> (files' # <<>>)

C19_PerArtifactReport == [][C19_Step]_vars

-----------------------------------------------------------------------------
(* reload_nginx, checked under SpecReload                                   *)

\* The messages that tell of a failed configuration test.
MentionsFailedTest(result) ==
    LET text == IF "message" \in DOMAIN result THEN result.message ELSE result.error
    IN text[1] \in {"Configuration test failed: ",
                    "configuration test failed, reload not run",
                    "Configuration test failed, reload aborted"}

\* The configuration test of call ended with a return code other than 0.
TestFailedIn(call) ==
    \E i \in 1..Len(commands) :
        commands[i] = [cmd |-> "nginx -t", call |-> call, outcome |-> "failed"]

\* C20: 'nginx -s reload' is only ever run right after the 'nginx -t' of the
\* same call has succeeded; a call whose test failed returns a failure whose
\* message tells of the failed test, and has run no reload.
C20_TestBeforeReload ==
    /\ \A i \in 1..Len(commands) :
          commands[i].cmd = "nginx -s reload"
          => /\ i > 1
             /\ commands[i - 1] = [cmd |-> "nginx -t", call |-> commands[i].call,
                                   outcome |-> "ok"]
    /\ (/\ toolResult.op = "reload_nginx"
        /\ toolResult.at = "returned"
        /\ TestFailedIn(toolResult.call))
       => /\ "success" \in DOMAIN toolResult
          /\ toolResult.success = FALSE
          /\ MentionsFailedTest(toolResult)
          /\ \A i \in 1..Len(commands) :
                commands[i].call = toolResult.call => commands[i].cmd # "nginx -s reload"

\* A first call that tested and reloaded, then a call whose test failed.
C20_Witness ==
    /\ Len(commands) = 3
    /\ commands[2] = [cmd |-> "nginx -s reload", call |-> 1, outcome |-> "ok"]
    /\ commands[3] = [cmd |-> "nginx -t", call |-> 2, outcome |-> "failed"]
    /\ toolResult.op = "reload_nginx"
    /\ toolResult.at = "returned"
    /\ toolResult.success = FALSE

-----------------------------------------------------------------------------
(* The installers, checked under SpecInstall                                *)

\* The call named cmd is among the calls made.
Called(log, cmd) == \E i \in 1..Len(log) : log[i].cmd = cmd

\* C21: install_missing without root returns {success: False, error: root
\* required} and calls no check and no installer; with root it calls the
\* installer of a component exactly when the check finds the component
\* missing, reports a component that is there as success with 'Already
\* installed', and its result has an entry for xray and one for nginx, so
\* nginx is checked and, when missing, installed whatever happened to xray.
C21_Step ==
    (toolResult'.op = "install_missing")
    => IF ~host.root
       THEN /\ toolResult' = [op |-> "install_missing", success |-> FALSE,
                              error |-> <<"Root privileges required">>]
            /\ commands' = <<>>
            /\ host' = host
       ELSE /\ {"xray", "nginx"} \subseteq DOMAIN toolResult'
            /\ Called(commands', "call check_xray_installed")
            /\ Called(commands', "call check_nginx_installed")
            /\ Called(commands', "call install_xray") <=> ("xray" \notin host.installed)
            /\ Called(commands', "call install_nginx") <=> ("nginx" \notin host.installed)
            /\ ("xray" \in host.installed)
               => toolResult'.xray = [success |-> TRUE, message |-> <<"Already installed">>]
            /\ ("nginx" \in host.installed)
               => toolResult'.nginx = [success |-> TRUE, message |-> <<"Already installed">>]

C21_InstallMissing == [][C21_Step]_vars

\* The Xray installation failed, Nginx was installed all the same.
C21_Witness ==
    /\ toolResult.op = "install_missing"
    /\ "xray" \in DOMAIN toolResult
    /\ toolResult.xray.success = FALSE
    /\ Called(commands, "call install_nginx")
    /\ toolResult.nginx = [success |-> TRUE, message |-> <<"Nginx installed successfully">>]
    /\ host.installed = {"nginx"}

\* Whether a command that ended with outcome lets the installation go on.
Tolerated(outcome) == outcome \in {"ok", "already"}

\* C26: install_nginx runs the commands of the distribution in list order
\* and stops at the first one that fails without 'already installed' in its
\* output: it then returns (False, message naming that command) and runs no
\* later command; on an unsupported distribution it runs nothing and returns
\* (False, 'Unsupported distribution ...'); it returns (True, '...
\* successfully') only when every command succeeded or was tolerated.
C26_InstallNginxStopsAtFailure ==
    (toolResult.op = "install_nginx")
    => LET cmds == NginxInstallCommands(host.distro)
           n == Len(commands)
       IN /\ n <= Len(cmds)
          /\ \A i \in 1..n : commands[i].cmd = cmds[i]
          /\ \A i \in 1..(n - 1) : Tolerated(commands[i].outcome)
          /\ IF host.distro = "unknown"
             THEN /\ n = 0
                  /\ toolResult.success = FALSE
                  /\ toolResult.message[1] = "Unsupported distribution: "
             ELSE IF n > 0 /\ ~Tolerated(commands[n].outcome)
             THEN /\ toolResult.success = FALSE
                  /\ toolResult.message[1] = "Command failed: "
                  /\ toolResult.message[2] = cmds[n]
             ELSE /\ n = Len(cmds)
                  /\ toolResult.success = TRUE
                  /\ toolResult.message = <<"Nginx installed successfully">>

\* The first of two commands failed: the second was not run.
C26_Witness ==
    /\ toolResult.op = "install_nginx"
    /\ host.distro = "debian"
    /\ Len(commands) = 1
    /\ commands[1] = [cmd |-> "apt-get update", outcome |-> "failed"]
    /\ toolResult.success = FALSE
    /\ toolResult.message[2] = "apt-get update"

-----------------------------------------------------------------------------
(* Last-writer-wins of the generated config, checked under SpecLast         *)

\* C22: a deploy_configs that saves the Xray config writes the JSON of the
\* configuration generated last (by generate_configs or add_xray_service),
\* not that of an earlier one.
C22_DeployWritesLastGenerated ==
    (/\ toolResult.op = "deploy_configs"
     /\ "xray" \in DOMAIN toolResult
     /\ toolResult.xray.config_saved # None)
    => xrayFile = generate_xray_json(lastGen)

-----------------------------------------------------------------------------
(* DEPLOYMENT_MODE = config_only, checked under SpecRest                    *)

\* C23: in mode config_only a deploy request with domains writes only under
\* /app/generated_configs (nothing at the system paths of Xray and Caddy),
\* runs no restart or reload, and answers with the deployment_status whose
\* mode is config_only.
C23_Step ==
    (/\ host.mode = "config_only"
     /\ toolResult'.op = "POST /deploy"
     /\ toolResult'.status # 400)
    => /\ xrayFile' = xrayFile
       /\ caddyMain' = caddyMain
       /\ caddyFragment' = caddyFragment
       /\ commands' = <<>>
       /\ "deployment_status" \in DOMAIN toolResult'
       /\ toolResult'.deployment_status.mode = "config_only"

-----------------------------------------------------------------------------
(* The subscription of the MCP server, checked under SpecNodes              *)

-----------------------------------------------------------------------------
(* Before anything was generated, checked under SpecServe                   *)

\* No generate call has succeeded in the process.
NothingGenerated == lastGen = NoObject /\ currentConfigs = <<>> /\ subscription = NoObject

\* C25: while no generate call has succeeded, deploy_configs returns an
\* error result, writes no file and runs no command; the subscription service
\* returns None for either format and no nodes, and the get_subscription
\* tool reports an error.
C25_Step ==
    NothingGenerated
    => /\ \A format \in FormatSamples : get_subscription(NoObject, format) = None
       /\ get_nodes(NoObject) = <<>>
       /\ (toolResult'.op = "deploy_configs")
          => /\ DOMAIN toolResult' = {"op", "error"}
             /\ commands' = <<>>
             /\ UNCHANGED <<xrayFile, caddyMain, caddyFragment, files>>
       /\ (toolResult'.op = "get_subscription")
          => /\ "error" \in DOMAIN toolResult'
             /\ "subscription" \notin DOMAIN toolResult'
             /\ "nodes" \notin DOMAIN toolResult'

C25_NothingBeforeGenerate == [][C25_Step]_vars

\* deploy_configs was refused: nothing generated, none of the files exists.
C25_Witness ==
    /\ NothingGenerated
    /\ toolResult.op = "deploy_configs"
    /\ "error" \in DOMAIN toolResult
    /\ xrayFile = NoObject /\ caddyMain = NoFile /\ caddyFragment = NoFile

-----------------------------------------------------------------------------
(* Concurrent removes, checked under SpecConc                               *)

\* C27: when two concurrent remove_service calls on one file name have both
\* ended, neither has raised, and they have not both returned True; with
\* the file there at the start one of them returned True.
C27_ConcurrentRemoveNeverRaises ==
    \A p, q \in Procs :
        (/\ p # q
         /\ procs[p].op = "remove_service" /\ procs[q].op = "remove_service"
         /\ procs[p].file = procs[q].file
         /\ procs[p].pc = "done" /\ procs[q].pc = "done")
        => /\ procs[p].raised = None /\ procs[q].raised = None
           /\ ~(procs[p].ok /\ procs[q].ok)

-----------------------------------------------------------------------------
(* The saved Xray config and the registry, checked under SpecMcp            *)

\* The inbound of the saved config.json.
SavedInbound == xrayFile.inbounds[1]

\* The reverse-proxy block that forwards domain to the saved inbound.
BlockForSaved(domain) ==
    generate_xray_config(domain, SavedInbound.port,
                         SavedInbound.streamSettings.xhttpSettings.path, None, None)

\* C28: after a successful add_xray_service, every Xray entry of the
\* registry forwards to the port and the path of the inbound of the saved
\* config.json.
C28_BlocksPointAtSavedConfig ==
    (/\ toolResult.op = "add_xray_service" /\ toolResult.success
     /\ xrayFile # NoObject)
    => \A e \in DOMAIN addedTo : \A svc \in addedTo[e] :
          (svc[1] = "xray" /\ e \in DOMAIN files) => files[e] = BlockForSaved(svc[2])

-----------------------------------------------------------------------------
(* The subscription and the current config, checked under SpecSub           *)

\* C29: once generate_configs has succeeded, the subscription service holds
\* the client uuid, the path and the domain list of the current config.
C29_SubscriptionAgreesWithConfig ==
    (subscription # NoObject /\ lastGen # NoObject)
    => /\ subscription.uuid = lastGen.client_uuid
       /\ subscription.path = lastGen.xray_path
       /\ subscription.path = lastGen.xray_config.path
       /\ subscription.domains = lastGen.domains

-----------------------------------------------------------------------------
(* What remove_service may delete, checked under Spec                       *)

\* The entries a step took out of conf_dir.
Deleted == (DOMAIN files) \ (DOMAIN files')

\* C30: whatever name remove_service is called with, the only file it
\* deletes is one that list_services() would have returned just before.
C30_Step ==
    lastCall'.op = "remove_service" => Deleted \subseteq Listed(files)

C30_RemoveConfinedToListed == [][C30_Step]_vars

====
